---- MODULE Spec2Model ----
(***************************************************************************)
(* A model of the smapi client library: the SmarterMail admin client       *)
(* (smapi/base.py), the Zoho REST client and its token issuance            *)
(* (smapi/zoho.py), the error types (smapi/exc.py) and the batch helpers   *)
(* (smapi/helpers.py).                                                     *)
(*                                                                         *)
(* The library is Python 2 code.  Strings whose characters the code        *)
(* inspects are sequences of symbols; a symbol that is a word ("RESULT")   *)
(* stands for that run of ordinary characters, which holds no newline,     *)
(* "#" or "=".  A raised exception is a record naming its type.            *)
(***************************************************************************)
EXTENDS Integers, Sequences, FiniteSets, TLC

VARIABLES
    ZohoError_options,  \* exc.py:106  ZohoError._options, one dict shared by the class
    ZohoAPI_options,    \* zoho.py:31  ZohoAPI._options, one dict shared by the class
    zh_insts,           \* the ZohoAPI objects constructed, and the token each resolved
    zh_last,            \* the last ZohoAPI operation: its arguments and what it did
    sm_options,         \* base.py:42  the _options of the SMAPI object, once constructed
    sm_last,            \* the last SMAPI operation: its arguments and what it did
    gu_pc,              \* get_users: "idle" | "loop" | "done"
    gu_args,            \* get_users: the arguments, and the answer to the listing request
    gu_users,           \* get_users: the users dict, username -> info dict
    gu_todo,            \* get_users: the users the for loop has yet to visit, in order
    gu_lookups,         \* get_users: the detail lookups made so far, in order
    gu_out,             \* get_users: what the call did (return / raise)
    im_obj,             \* helpers.py:141  the IMAP_Connection object and its stored credentials
    im_conn,            \* helpers.py:138  _imap_conn: the connection held, 0 for None
    im_sess,            \* the connections opened to the mail store, and the state of each
    im_last,            \* the last IMAP_Connection operation: arguments, outcome, commands
    ft_args,            \* fetch_token: the arguments and the HTTP response received
    ft_pc,              \* fetch_token: "start" | "done"
    ft_out,             \* fetch_token: what the call did (return / raise, decoding, log)
    ex_objs,            \* exc.py  the exception objects that exist, and what each was given
    ex_last             \* the last operation on an exception object, and what it did

vars == <<ZohoError_options, ZohoAPI_options, zh_insts, zh_last, sm_options, sm_last,
          gu_pc, gu_args, gu_users, gu_todo, gu_lookups, gu_out,
          im_obj, im_conn, im_sess, im_last, ft_args, ft_pc, ft_out, ex_objs, ex_last>>

(***************************************************************************)
(* Bounds of the model.                                                    *)
(***************************************************************************)
MaxBody == 6            \* longest response body of the token endpoint, in symbols
MaxUsers == 3           \* most users of a domain listing
MaxSessions == 3        \* most connections one run opens to the mail store
MaxMsgs == 3            \* most messages a SEARCH finds

(***************************************************************************)
(* Values.                                                                 *)
(***************************************************************************)
NL == "\n"
Chars == {NL, "#", "=", "RESULT", "TRUE", "AUTHTOKEN"}

Str(n) == UNION {[1..k -> Chars] : k \in 0..n}

\* Python's None, and a string value, as one shape of record.
None == [some |-> FALSE, s |-> <<>>]
Some(s) == [some |-> TRUE, s |-> s]

\* a dict with string keys: a function from the keys present to their values
EmptyDict == [k \in {} |-> <<>>]
K_RESULT == <<"RESULT">>
K_AUTHTOKEN == <<"AUTHTOKEN">>
V_TRUE == <<"TRUE">>

\* dict.get(key, None)
DictGet(d, key) == IF key \in DOMAIN d THEN Some(d[key]) ELSE None

\* Python truth value of a str-or-None
Truthy(v) == v.some /\ v.s # <<>>

(***************************************************************************)
(* HTTP responses.  A body is JSON text that decodes to a dict of string   *)
(* fields, or text that is not JSON.                                       *)
(***************************************************************************)
JsonBody(fields) == [kind |-> "json", fields |-> fields, chars |-> <<>>]
TextBody(chars) == [kind |-> "text", fields |-> EmptyDict, chars |-> chars]
Response(status, body) == [status |-> status, body |-> body]
NoResponse == Response(0, TextBody(<<>>))

\* requests.Response.__nonzero__ is Response.ok: no 4xx/5xx status
\* (the truth value read by "if not resp" and "if not http_response")
RespTruthy(resp) == resp # NoResponse /\ ~(resp.status >= 400 /\ resp.status < 600)

NoExc == [type |-> "None", message |-> "", base_ex |-> "None"]
Exc(type, message, base_ex) == [type |-> type, message |-> message, base_ex |-> base_ex]

(***************************************************************************)
(* exc.py: ZohoError.__init__.  dump_objs is None or a dict of named       *)
(* responses.  The result is the exception the constructor call yields     *)
(* (the ZohoError, or the TypeError of `'http_response' in None`) and the  *)
(* value ZohoError._options['http_response'] has afterwards.               *)
(***************************************************************************)
DumpNone == [some |-> FALSE, d |-> [k \in {} |-> NoResponse]]

ZohoError_init(message, base_ex, dump_objs, http_response, zopts) ==
    IF ~RespTruthy(http_response) /\ ~dump_objs.some
    THEN \* `'http_response' in dump_objs` with dump_objs None
         [exc |-> Exc("TypeError", "argument of type 'NoneType' is not iterable", "None"),
          zopts |-> zopts]
    ELSE LET http == IF ~RespTruthy(http_response) /\ "http_response" \in DOMAIN dump_objs.d
                     THEN dump_objs.d["http_response"]
                     ELSE http_response
         IN [exc |-> Exc("ZohoError", message, base_ex), zopts |-> http]

(***************************************************************************)
(* exc.py: the exception objects.  SMAPIError.__init__ stores its          *)
(* arguments in the instance attribute _values; the properties message,    *)
(* base_ex and dump_objs, and __str__ through message, read                *)
(* self._options[...].  SMAPIError has no attribute _options               *)
(* (AttributeError); for a ZohoError, self._options is the dict of the     *)
(* class, whose only key is 'http_response' (KeyError).  http_response of  *)
(* a ZohoError reads that dict.                                            *)
(***************************************************************************)
ErrValues(message, base_ex, dump_objs) ==
    [message |-> message, base_ex |-> base_ex, dump_objs |-> dump_objs]

\* an exception object: its class, its _values and the response captured for it
ErrObj(cls, values, http_response) ==
    [live |-> TRUE, cls |-> cls, values |-> values, http_response |-> http_response]
NoErrObj == [live |-> FALSE, cls |-> "None", values |-> ErrValues("", "None", DumpNone),
             http_response |-> NoResponse]

SMAPIError_init(message, base_ex, dump_objs) ==
    ErrObj("SMAPIError", ErrValues(message, base_ex, dump_objs), NoResponse)

\* what reading an attribute of an exception object does
ER(kind, value, exc) == [kind |-> kind, value |-> value, exc |-> exc]

\* the properties message, base_ex and dump_objs: self._options[name]
SMAPIError_property(obj, name) ==
    IF obj.cls = "SMAPIError"
    THEN ER("raise", None,
            Exc("AttributeError", "'SMAPIError' object has no attribute '_options'", "None"))
    ELSE ER("raise", None, Exc("KeyError", name, "None"))

\* SMAPIError.__str__
SMAPIError_str(obj) == SMAPIError_property(obj, "message")

\* ZohoError.http_response
ZohoError_http_response(obj, zopts) == ER("return", zopts, NoExc)

\* ZohoAPI.token and ZohoAPI.email_id: self._options.get(...), the dict of the class
ZohoAPI_token(opts) == opts.token
ZohoAPI_email_id(opts) == opts.email_id

\* exception_args of ZohoAPI._log: the keyword arguments handed to ZohoError
NoArgs == [http_response |-> NoResponse, base_ex |-> "None"]
ExArgs(http_response, base_ex) == [http_response |-> http_response, base_ex |-> base_ex]

(***************************************************************************)
(* zoho.py: ZohoAPI._log.  Logs the message at log_level and, when         *)
(* throw_exception is set, raises ZohoError(error_message, **ex_args).     *)
(* No caller passes dump_objs or exception.                                *)
(***************************************************************************)
ZohoAPI_log(error_message, log_level, throw_exception, exception_args, zopts) ==
    LET made == ZohoError_init(error_message, exception_args.base_ex, DumpNone,
                               exception_args.http_response, zopts)
    IN [logged |-> <<[level |-> log_level, message |-> error_message]>>,
        raised |-> throw_exception,
        exc |-> IF throw_exception THEN made.exc ELSE NoExc,
        zopts |-> IF throw_exception THEN made.zopts ELSE zopts]

(***************************************************************************)
(* zoho.py:125  dict(re.findall(pattern, resp.content, re.MULTILINE)):     *)
(* the pattern matches a whole line that does not begin with "#" and       *)
(* holds an "="; the key is greedy (all before the last "="), the value    *)
(* is the rest of the line.                                                *)
(***************************************************************************)
RECURSIVE SplitLines(_)
SplitLines(chars) ==
    IF \E i \in 1..Len(chars) : chars[i] = NL
    THEN LET i == CHOOSE j \in 1..Len(chars) :
                      chars[j] = NL /\ \A k \in 1..(j - 1) : chars[k] # NL
         IN <<SubSeq(chars, 1, i - 1)>> \o SplitLines(SubSeq(chars, i + 1, Len(chars)))
    ELSE <<chars>>

\* the line matches: it does not start with "#" and holds an "="
LineMatches(line) ==
    /\ \E i \in 1..Len(line) : line[i] = "="
    /\ ~(Len(line) > 0 /\ line[1] = "#")

\* the greedy key: everything before the last "="
LastEq(line) == CHOOSE i \in 1..Len(line) :
                    line[i] = "=" /\ \A k \in (i + 1)..Len(line) : line[k] # "="

LineKey(line) == SubSeq(line, 1, LastEq(line) - 1)
LineValue(line) == SubSeq(line, LastEq(line) + 1, Len(line))

\* dict(pairs): a later pair with the same key wins
KVDict(chars) ==
    LET lines == SplitLines(chars)
        hits == {i \in 1..Len(lines) : LineMatches(lines[i])}
        keys == {LineKey(lines[i]) : i \in hits}
        last(k) == CHOOSE i \in hits :
                       /\ LineKey(lines[i]) = k
                       /\ \A j \in hits : LineKey(lines[j]) = k => j <= i
    IN [k \in keys |-> LineValue(lines[last(k)])]

(***************************************************************************)
(* zoho.py: scope names.  "w" is a run of lower-case word characters, "W"  *)
(* a run of word characters with upper-case letters, "-" a character that  *)
(* is no word character.                                                   *)
(***************************************************************************)
WordSyms == {"Zoho", "zoho", "w", "W", "mail", "crm", "MAIL"}

LowerSym(c) == CASE c = "Zoho" -> "zoho"
                 [] c = "W" -> "w"
                 [] c = "MAIL" -> "mail"
                 [] OTHER -> c

Lower(s) == [i \in 1..Len(s) |-> LowerSym(s[i])]

\* ZohoAPI._SCOPES
SCOPES == [k \in {<<"mail">>, <<"crm">>} |->
              IF k = <<"mail">> THEN <<"Zoho", "W", "/", "Zoho", "W">>
                                ELSE <<"Zoho", "W", "/", "w">>]

\* re.match(r'^Zoho\w+\/\w+$', scope_name)
ScopeShaped(s) ==
    /\ Len(s) >= 4
    /\ s[1] = "Zoho"
    /\ \E p \in 3..(Len(s) - 1) :
          /\ s[p] = "/"
          /\ \A i \in (2..Len(s)) \ {p} : s[i] \in WordSyms

\* zoho.py:83-95: the scope of the request, or none for an invalid name
ResolveScope(scope_name) ==
    IF ~Truthy(scope_name) THEN Some(SCOPES[<<"mail">>])
    ELSE IF ScopeShaped(scope_name.s) THEN scope_name
    ELSE DictGet(SCOPES, Lower(scope_name.s))

(***************************************************************************)
(* zoho.py: ZohoAPI.fetch_token.  net is what the one GET to the token     *)
(* endpoint yields.  The result says what the call did: return or raise,   *)
(* the value, the exception, the decoders run in order, the decoded        *)
(* fields, the log records, the requests issued and ZohoError._options.    *)
(***************************************************************************)
FT(kind, value, exc, decodes, ents, logged, requests, zopts) ==
    [kind |-> kind, value |-> value, exc |-> exc, decodes |-> decodes, ents |-> ents,
     logged |-> logged, requests |-> requests, zopts |-> zopts]

\* cls._log(..., throw_exception=use_exceptions); return None
FTFail(l, decodes, ents, requests) ==
    IF l.raised
    THEN FT("raise", None, l.exc, decodes, ents, l.logged, requests, l.zopts)
    ELSE FT("return", None, NoExc, decodes, ents, l.logged, requests, l.zopts)

TokenRequest(email_id, password, scope) ==
    [endpoint |-> "token", method |-> "GET", email_id |-> email_id,
     password |-> password, scope |-> scope]

\* the checks both decoding tiers run on the decoded fields (lines 113-123, 126-136)
JsonTier(resp, ents, use_exceptions, reqs, zopts) ==
    IF ents = EmptyDict
    THEN FTFail(ZohoAPI_log("Unable to fetch API token, invalid response", "ERROR",
                            use_exceptions, ExArgs(resp, "None"), zopts),
                <<"json">>, ents, reqs)
    ELSE IF K_RESULT \notin DOMAIN ents \/ ents[K_RESULT] # V_TRUE
    THEN FTFail(ZohoAPI_log("Invalid AUTHTOKEN response", "ERROR",
                            use_exceptions, ExArgs(resp, "None"), zopts),
                <<"json">>, ents, reqs)
    ELSE FT("return", DictGet(ents, K_AUTHTOKEN), NoExc, <<"json">>, ents, <<>>, reqs, zopts)

\* KVTier with the RESULT value left unchecked
KVTier_AnyResult(resp, ents, use_exceptions, reqs, zopts) ==
    IF ents = EmptyDict
    THEN FTFail(ZohoAPI_log("Unable to fetch API token, invalid response", "ERROR",
                            use_exceptions, ExArgs(resp, "JSONDecodeError"), zopts),
                <<"json", "kv">>, ents, reqs)
    ELSE IF K_RESULT \notin DOMAIN ents
    THEN FTFail(ZohoAPI_log("Invalid AUTHTOKEN response", "ERROR",
                            use_exceptions, ExArgs(resp, "None"), zopts),
                <<"json", "kv">>, ents, reqs)
    ELSE FT("return", DictGet(ents, K_AUTHTOKEN), NoExc, <<"json", "kv">>, ents, <<>>,
            reqs, zopts)

KVTier(resp, ents, use_exceptions, reqs, zopts) ==
    IF ents = EmptyDict
    THEN FTFail(ZohoAPI_log("Unable to fetch API token, invalid response", "ERROR",
                            use_exceptions, ExArgs(resp, "JSONDecodeError"), zopts),
                <<"json", "kv">>, ents, reqs)
    ELSE IF K_RESULT \notin DOMAIN ents \/ ents[K_RESULT] # V_TRUE
    THEN FTFail(ZohoAPI_log("Invalid AUTHTOKEN response", "ERROR",
                            use_exceptions, ExArgs(resp, "None"), zopts),
                <<"json", "kv">>, ents, reqs)
    ELSE FT("return", DictGet(ents, K_AUTHTOKEN), NoExc, <<"json", "kv">>, ents, <<>>,
            reqs, zopts)

ZohoAPI_fetch_token(email_id, password, use_exceptions, scope_name, net, zopts) ==
    LET scope == ResolveScope(scope_name)
        reqs == <<TokenRequest(email_id, password, scope.s)>>
        resp == net.resp
    IN IF ~Truthy(scope)
       THEN FTFail(ZohoAPI_log("Invalid scope_name", "ERROR", use_exceptions, NoArgs, zopts),
                   <<>>, EmptyDict, <<>>)
       ELSE IF net.err # "None"
       THEN \* requests.get raises; nothing here catches it
            FT("raise", None, Exc(net.err, "", "None"), <<>>, EmptyDict, <<>>, reqs, zopts)
       ELSE IF ~RespTruthy(resp)
       THEN FTFail(ZohoAPI_log("No response from API token request", "ERROR",
                               use_exceptions, ExArgs(resp, "None"), zopts),
                   <<>>, EmptyDict, reqs)
       ELSE IF resp.status # 200
       THEN FTFail(ZohoAPI_log("HTTP Error", "ERROR", use_exceptions,
                               ExArgs(resp, "None"), zopts),
                   <<>>, EmptyDict, reqs)
       ELSE IF resp.body.kind = "json"
       THEN JsonTier(resp, resp.body.fields, use_exceptions, reqs, zopts)
       ELSE KVTier(resp, KVDict(resp.body.chars), use_exceptions, reqs, zopts)

(***************************************************************************)
(* zoho.py:184  re.match(r'^[a-z0-9]{32}$', token).  "h16a" and "h16b" are *)
(* runs of 16 characters of [a-z0-9], "H16" a run of 16 with upper-case    *)
(* letters, "c1" one character of [a-z0-9]; any other symbol is one        *)
(* character outside the class.  "$" also matches before a final newline.  *)
(***************************************************************************)
TokenLen == 32

Width(c) == IF c \in {"h16a", "h16b", "H16"} THEN 16 ELSE 1
LowerAlnum(c) == c \in {"h16a", "h16b", "c1"}

RECURSIVE TotalWidth(_)
TotalWidth(s) == IF s = <<>> THEN 0 ELSE Width(Head(s)) + TotalWidth(Tail(s))

IsTokenFormat(s) ==
    LET core == IF Len(s) > 0 /\ s[Len(s)] = NL THEN SubSeq(s, 1, Len(s) - 1) ELSE s
    IN /\ \A i \in 1..Len(core) : LowerAlnum(core[i])
       /\ TotalWidth(core) = TokenLen

(***************************************************************************)
(* zoho.py: ZohoAPI._get_scope (use_exceptions is left at its default).    *)
(***************************************************************************)
ZohoAPI_get_scope(scope_name, zopts) ==
    LET scope == ResolveScope(scope_name)
        l == ZohoAPI_log("Invalid scope_name", "ERROR", TRUE, NoArgs, zopts)
    IN IF Truthy(scope)
       THEN [raised |-> FALSE, scope |-> scope, exc |-> NoExc, logged |-> <<>>,
             zopts |-> zopts]
       ELSE [raised |-> TRUE, scope |-> None, exc |-> l.exc, logged |-> l.logged,
             zopts |-> l.zopts]

(***************************************************************************)
(* zoho.py: ZohoAPI.__init__.  opts is the class dict ZohoAPI._options,    *)
(* which self._options.update(...) writes.  net answers the token request  *)
(* when one is made.                                                       *)
(***************************************************************************)
ClassOptions(email_id, token, scope) == [email_id |-> email_id, token |-> token, scope |-> scope]
ClassOptions0 == ClassOptions(None, None, None)

ZI(kind, exc, opts, logged, requests, zopts) ==
    [kind |-> kind, exc |-> exc, opts |-> opts, logged |-> logged, requests |-> requests,
     zopts |-> zopts]

\* __init__ with the token decided (line 192)
ZohoAPI_init_store(token, email_id, scope, opts, logged, requests, zopts) ==
    ZI("ok", NoExc, ClassOptions(email_id, token, scope), logged, requests, zopts)

ZohoAPI_init(token, email_id, scope_name, fetch_token, net, opts, zopts) ==
    LET sc == IF Truthy(scope_name) THEN ZohoAPI_get_scope(scope_name, zopts)
              ELSE [raised |-> FALSE, scope |-> Some(SCOPES[<<"mail">>]), exc |-> NoExc,
                    logged |-> <<>>, zopts |-> zopts]
    IN IF sc.raised
       THEN ZI("raise", sc.exc, opts, sc.logged, <<>>, sc.zopts)
       ELSE IF ~(fetch_token \/ ~IsTokenFormat(token))
       THEN ZohoAPI_init_store(Some(token), email_id, sc.scope, opts, <<>>, <<>>, zopts)
       ELSE IF ~Truthy(email_id)
       THEN LET l == ZohoAPI_log("Unable to fetch a token without specifying an email_id",
                                 "ERROR", TRUE, NoArgs, zopts)
            IN ZI("raise", l.exc, opts, l.logged, <<>>, l.zopts)
       ELSE LET ft == ZohoAPI_fetch_token(email_id, token, TRUE, None, net, zopts)
            IN IF ft.kind = "raise"
               THEN ZI("raise", ft.exc, opts, ft.logged, ft.requests, ft.zopts)
               ELSE IF ~Truthy(ft.value)
               THEN LET l == ZohoAPI_log("No Zoho API Token Provided", "ERROR", TRUE,
                                         NoArgs, ft.zopts)
                    IN ZI("raise", l.exc, opts, ft.logged \o l.logged, ft.requests, l.zopts)
               ELSE ZohoAPI_init_store(ft.value, email_id, sc.scope, opts, ft.logged,
                                       ft.requests, ft.zopts)

(***************************************************************************)
(* zoho.py: ZohoAPI.from_email_id.  net1 answers the token request,        *)
(* net2 the one __init__ makes when the token fetched is not token-shaped. *)
(* value is the object returned: TRUE for a ZohoAPI, FALSE for None.       *)
(***************************************************************************)
\* from_email_id after the token request: ft is what fetch_token did
FromEmailId_construct(ft, zi) ==
    ZI(zi.kind, zi.exc, zi.opts, ft.logged \o zi.logged, ft.requests \o zi.requests, zi.zopts)

FromEmailId_fetched(ft, email_id, scope_name, net2, opts) ==
    IF ft.kind = "raise"
    THEN ZI("raise", ft.exc, opts, ft.logged, ft.requests, ft.zopts)
    ELSE IF ~Truthy(ft.value)
    THEN ZI("none", NoExc, opts,
            ft.logged \o <<[level |-> "WARN", message |-> "Unable to generate API token"]>>,
            ft.requests, ft.zopts)
    ELSE FromEmailId_construct(ft, ZohoAPI_init(ft.value.s, email_id, scope_name, FALSE, net2,
                                                opts, ft.zopts))

ZohoAPI_from_email_id(email_id, password, scope_name, net1, net2, opts, zopts) ==
    FromEmailId_fetched(ZohoAPI_fetch_token(email_id, password, FALSE, scope_name, net1, zopts),
                        email_id, scope_name, net2, opts)

(***************************************************************************)
(* JSON values of the REST envelope {status: {...}, data: ...}.  n is the  *)
(* length of a list, dict or string and the value of a number; Python      *)
(* reads the value as true when n is not 0.                                *)
(***************************************************************************)
JsonVal(kind, n) == [kind |-> kind, n |-> n]
PyNone == JsonVal("None", 0)
JsonTruthy(v) == v.kind \in {"list", "dict", "num", "str"} /\ v.n # 0

\* status: "absent", "empty" ({}), "desc" (holds a description), "nodesc"
\* data: a JSON value, or kind "absent"; other: the envelope holds another key
ApiJson(status, data, other) ==
    [kind |-> "json", status |-> status, data |-> data, other |-> other]
ApiText == [kind |-> "text", status |-> "absent", data |-> JsonVal("absent", 0),
            other |-> FALSE]

EnvelopeEmpty(body) == body.status = "absent" /\ body.data.kind = "absent" /\ ~body.other

\* res_json.get('data', None)
EnvelopeData(body) == IF body.data.kind \in {"absent", "null"} THEN PyNone ELSE body.data

\* method.upper()
Upper(m) == CASE m = "get" -> "GET"
              [] m = "post" -> "POST"
              [] m = "patch" -> "PATCH"
              [] OTHER -> m

ApiRequest(method, path, params, token) ==
    [endpoint |-> "api", method |-> method, path |-> path, params |-> params,
     auth |-> token]

(***************************************************************************)
(* zoho.py: ZohoAPI._call_zoho.  An exception raised inside the try block  *)
(* that is no JSONDecodeError reaches `except RequestException`, a name    *)
(* zoho.py never imports: evaluating that clause raises NameError, which   *)
(* replaces the exception.                                                 *)
(***************************************************************************)
ZC(kind, value, exc, logged, requests, zopts) ==
    [kind |-> kind, value |-> value, exc |-> exc, logged |-> logged,
     requests |-> requests, zopts |-> zopts]

ExceptDispatch(exc) ==
    IF exc.type = "JSONDecodeError" THEN exc
    ELSE Exc("NameError", "global name 'RequestException' is not defined", "None")

\* self._log(...) inside the try block, then `return None`
ZCFailInTry(l, reqs) ==
    IF l.raised
    THEN ZC("raise", PyNone, ExceptDispatch(l.exc), l.logged, reqs, l.zopts)
    ELSE ZC("return", PyNone, NoExc, l.logged, reqs, l.zopts)

\* self._log(...) in an except handler or after the with block
ZCFail(l, value, logged, reqs) ==
    IF l.raised
    THEN ZC("raise", PyNone, l.exc, logged \o l.logged, reqs, l.zopts)
    ELSE ZC("return", value, NoExc, logged \o l.logged, reqs, l.zopts)

\* lines 257-260: the code after the with block
ZohoAPI_call_zoho_tail(res, use_exceptions, logged, reqs, zopts) ==
    IF ~JsonTruthy(res)
    THEN ZCFail(ZohoAPI_log("No valid response from Zoho API", "ERROR", use_exceptions,
                            NoArgs, zopts),
                res, logged, reqs)
    ELSE ZC("return", res, NoExc, logged, reqs, zopts)

ZohoAPI_call_zoho(path, params, method, use_exceptions, net, opts, zopts) ==
    LET reqs == <<ApiRequest(Upper(method), path, params, opts.token)>>
        resp == net.resp
        body == resp.body
        res == EnvelopeData(body)
    IN IF Upper(method) \notin {"GET", "POST", "PUT", "DELETE"}
       THEN ZCFail(ZohoAPI_log("Invalid HTTP method", "ERROR", use_exceptions, NoArgs, zopts),
                   PyNone, <<>>, <<>>)
       ELSE IF net.err # "None"
       THEN ZC("raise", PyNone, Exc(net.err, "", "None"), <<>>, reqs, zopts)
       ELSE IF ~RespTruthy(resp)
       THEN ZCFailInTry(ZohoAPI_log("No HTTP response", "ERROR", use_exceptions, NoArgs,
                                    zopts), reqs)
       ELSE IF body.kind # "json"
       THEN ZCFail(ZohoAPI_log("JSON Decoding Error", "ERROR", use_exceptions,
                               ExArgs(resp, "JSONDecodeError"), zopts),
                   PyNone, <<>>, reqs)
       ELSE IF EnvelopeEmpty(body)
       THEN ZCFailInTry(ZohoAPI_log("No valid response from Zoho API", "ERROR",
                                    use_exceptions, NoArgs, zopts), reqs)
       ELSE IF body.status \in {"desc", "nodesc"} /\ resp.status # 200
       THEN IF JsonTruthy(res)
            THEN LET l == ZohoAPI_log("Non-fatal HTTP warning", "WARN", FALSE, NoArgs, zopts)
                 IN ZohoAPI_call_zoho_tail(res, use_exceptions, l.logged, reqs, l.zopts)
            ELSE ZCFailInTry(ZohoAPI_log("HTTP Error from Zoho API", "ERROR", TRUE,
                                         ExArgs(resp, "None"), zopts), reqs)
       ELSE ZohoAPI_call_zoho_tail(res, use_exceptions, <<>>, reqs, zopts)

(***************************************************************************)
(* base.py: SMAPI.  A port argument is None, an int, a str of digits       *)
(* ("str", with its value) or a str that is no number ("word").            *)
(***************************************************************************)
SERVICES == {<<"DomainAdmin">>, <<"UserAdmin">>, <<"ProductInfo">>, <<"DomainAliasAdmin">>,
             <<"MailListAdmin">>, <<"AliasAdmin">>, <<"GlobalUpdate">>}

Port(kind, n) == [kind |-> kind, n |-> n]
PortNone == Port("None", 0)

\* Python truth value of a port argument
PortTruthy(port) == CASE port.kind = "None" -> FALSE
                      [] port.kind = "int" -> port.n # 0
                      [] OTHER -> TRUE

SMOptions(server, username, password, use_ssl, port) ==
    [server |-> server, username |-> username, password |-> password,
     use_ssl |-> use_ssl, port |-> port]
NoSMAPI == SMOptions(None, None, None, FALSE, PortNone)

\* SMAPI.__init__
SMAPI_init(server, username, password, use_ssl, port) ==
    IF ~Truthy(server)
    THEN [kind |-> "raise", exc |-> Exc("SMAPIError", "No server hostname provided", "None"),
          opts |-> NoSMAPI]
    ELSE IF ~Truthy(username)
    THEN [kind |-> "raise", exc |-> Exc("SMAPIError", "No username provided", "None"),
          opts |-> NoSMAPI]
    ELSE IF ~Truthy(password)
    THEN [kind |-> "raise", exc |-> Exc("SMAPIError", "No password provided", "None"),
          opts |-> NoSMAPI]
    ELSE IF ~PortTruthy(port)
    THEN [kind |-> "ok", exc |-> NoExc,
          opts |-> SMOptions(server, username, password, use_ssl, PortNone)]
    ELSE IF port.kind = "word"
    THEN \* int(port) raises ValueError
         [kind |-> "raise", exc |-> Exc("SMAPIError", "Invalid port provided", "None"),
          opts |-> NoSMAPI]
    ELSE [kind |-> "ok", exc |-> NoExc,
          opts |-> SMOptions(server, username, password, use_ssl, Port("int", port.n))]

\* SMAPI.use_ssl and SMAPI.port: _get_option with a default
SMAPI_use_ssl(opts) == opts.use_ssl
SMAPI_port(opts) == IF PortTruthy(opts.port) THEN opts.port ELSE PortNone

\* SMAPI._get_service_url: the URL as the sequence of its parts, or the
\* NameError of `SERVICES.keys()` (SERVICES is no global name)
SMAPI_get_service_url(opts, srv_name, method) ==
    IF srv_name \notin SERVICES
    THEN [raised |-> TRUE,
          exc |-> Exc("NameError", "global name 'SERVICES' is not defined", "None"),
          url |-> <<>>]
    ELSE [raised |-> FALSE, exc |-> NoExc,
          url |-> <<IF SMAPI_use_ssl(opts) THEN "https" ELSE "http", "://">>
                  \o opts.server.s
                  \o (IF PortTruthy(SMAPI_port(opts))
                      THEN <<":", ToString(SMAPI_port(opts).n)>> ELSE <<>>)
                  \o <<"/Services/svc">> \o srv_name \o <<".asmx/">> \o method]

\* SMAPI.call.  net is what requests.request yields: a response of any status
\* (its content parsed and returned) or an exception; only HTTPError is caught.
SC(kind, doc, exc, requests) == [kind |-> kind, doc |-> doc, exc |-> exc, requests |-> requests]

\* The parsed document (bs4.BeautifulSoup of the content): the usernames of its
\* <userinfo> nodes and, when it has a <settingvalues> node, the texts of the
\* nodes under it.  NoDoc is Python's None.
SettingValues(some, leaves) == [some |-> some, leaves |-> leaves]
Doc(userinfo, settingvalues) ==
    [none |-> FALSE, userinfo |-> userinfo, settingvalues |-> settingvalues]
NoDoc == [none |-> TRUE, userinfo |-> <<>>, settingvalues |-> SettingValues(FALSE, <<>>)]
AdminResponse(status, content) == [status |-> status, content |-> content]

SMAPI_call(opts, srv_name, method, params, use_post, net) ==
    LET u == SMAPI_get_service_url(opts, srv_name, method)
        reqs == <<[method |-> IF use_post THEN "POST" ELSE "GET", url |-> u.url,
                   params |-> params \cup {"AuthUserName", "AuthPassword"},
                   auth |-> <<opts.username, opts.password>>]>>
    IN IF u.raised THEN SC("raise", NoDoc, u.exc, <<>>)
       ELSE IF net.err = "HTTPError"
       THEN SC("raise", NoDoc, Exc("SMAPIError", "Error calling service", net.err), reqs)
       ELSE IF net.err # "None"
       THEN SC("raise", NoDoc, Exc(net.err, "", "None"), reqs)
       ELSE SC("return", net.resp.content, NoExc, reqs)

(***************************************************************************)
(* helpers.py: get_user.  Each text under <settingvalues> is split at "="  *)
(* and dict(...) takes the parts as a pair: a text without exactly one "=" *)
(* raises ValueError, a document without <settingvalues> AttributeError.   *)
(***************************************************************************)
EqCount(leaf) == Cardinality({i \in 1..Len(leaf) : leaf[i] = "="})
EqAt(leaf) == CHOOSE i \in 1..Len(leaf) : leaf[i] = "="

PairsDict(leaves) ==
    LET key(i) == SubSeq(leaves[i], 1, EqAt(leaves[i]) - 1)
        val(i) == SubSeq(leaves[i], EqAt(leaves[i]) + 1, Len(leaves[i]))
        keys == {key(i) : i \in 1..Len(leaves)}
        last(k) == CHOOSE i \in 1..Len(leaves) :
                       key(i) = k /\ \A j \in 1..Len(leaves) : key(j) = k => j <= i
    IN [k \in keys |-> val(last(k))]

GU(kind, info, exc) == [kind |-> kind, info |-> info, exc |-> exc]

get_user(opts, address, requested_settings, net) ==
    LET c == SMAPI_call(opts, <<"UserAdmin">>, <<"GetRequestedUserSettings">>,
                        {"EmailAddress", "requestedSettings"}, FALSE, net)
        sv == c.doc.settingvalues
    IN IF c.kind = "raise" THEN GU("raise", EmptyDict, c.exc)
       ELSE IF ~sv.some
       THEN GU("raise", EmptyDict,
               Exc("AttributeError", "'NoneType' object has no attribute 'find_all'", "None"))
       ELSE IF \E i \in 1..Len(sv.leaves) : EqCount(sv.leaves[i]) # 1
       THEN GU("raise", EmptyDict,
               Exc("ValueError", "dictionary update sequence element has length 1", "None"))
       ELSE GU("return", PairsDict(sv.leaves), NoExc)

\* dict.update: the keys of the second dict take its values
DictUpdate(d, e) ==
    [k \in DOMAIN d \cup DOMAIN e |-> IF k \in DOMAIN e THEN e[k] ELSE d[k]]

\* helpers.py:21-23: the users dict built from the <userinfo> nodes
BaseUsers(doc) ==
    [u \in {doc.userinfo[i] : i \in 1..Len(doc.userinfo)} |->
        [k \in {<<"username">>} |-> u]]

LookupFailure_Unwrapped(exc) == exc

\* helpers.py:33-42: what a failed lookup raises when require_extra_info is set
LookupFailure(exc) ==
    IF exc.type = "SMAPIError" THEN exc
    ELSE Exc("SMAPIError", "Unable to determine extra user info", exc.type)

(***************************************************************************)
(* base.py and helpers.py: the read helpers.  Each calls the service and   *)
(* projects the nodes of the parsed document.  A listing document is the   *)
(* container node it may hold (<domainnames>, <users>) with the texts of   *)
(* the nodes under it; an answer without the container holds no <string>   *)
(* node.  A parsed document is true as a Python value, find() yields None  *)
(* when no node has the name.  dump is the dump_objs['result'] handed to   *)
(* the SMAPIError raised, NoDoc when there is none.                        *)
(***************************************************************************)
Container(some, leaves) == [some |-> some, leaves |-> leaves]
DomainsDoc(domainnames) == [none |-> FALSE, domainnames |-> domainnames]
UsersDoc(users) == [none |-> FALSE, users |-> users]

RD(kind, value, exc, dump) == [kind |-> kind, value |-> value, exc |-> exc, dump |-> dump]

\* the texts that are kept, lower-cased: `if not dom.text: continue`
RECURSIVE LowerTexts(_)
LowerTexts(leaves) ==
    IF leaves = <<>> THEN <<>>
    ELSE (IF Head(leaves) = <<>> \/ Head(leaves) = <<NL>> THEN <<>>
          ELSE <<Lower(Head(leaves))>>)
         \o LowerTexts(Tail(leaves))

\* SMAPI.get_all_domains
SMAPI_get_all_domains(opts, net) ==
    LET c == SMAPI_call(opts, <<"DomainAdmin">>, <<"GetAllDomains">>, {}, FALSE, net)
    IN IF c.kind = "raise" THEN RD("raise", <<>>, c.exc, NoDoc)
       ELSE IF ~c.doc.domainnames.some
       THEN RD("raise", <<>>, Exc("SMAPIError", "Cannot find any domains", "None"), c.doc)
       ELSE RD("return", LowerTexts(c.doc.domainnames.leaves), NoExc, NoDoc)

\* SMAPI.get_domain_users: the nodes under <users>, line breaks between them
\* skipped
SMAPI_get_domain_users(opts, domain, net) ==
    LET c == SMAPI_call(opts, <<"DomainAdmin">>, <<"GetDomainUsers">>, {"DomainName"},
                        FALSE, net)
    IN IF c.kind = "raise" THEN RD("raise", <<>>, c.exc, NoDoc)
       ELSE IF ~c.doc.users.some
       THEN RD("raise", <<>>, Exc("SMAPIError", "Cannot find any users for domain", "None"),
               c.doc)
       ELSE RD("return", LowerTexts(c.doc.users.leaves), NoExc, NoDoc)

\* SMAPI.get_requested_user_settings: `for k,v in [ent.text.split('=') ...]`
\* raises ValueError for a text without exactly one "="
SMAPI_get_requested_user_settings(opts, email_address, requested_settings, net) ==
    LET c == SMAPI_call(opts, <<"UserAdmin">>, <<"GetRequestedUserSettings">>,
                        {"EmailAddress", "requestedSettings"}, FALSE, net)
        sv == c.doc.settingvalues
    IN IF c.kind = "raise" THEN RD("raise", EmptyDict, c.exc, NoDoc)
       ELSE IF ~sv.some
       THEN RD("raise", EmptyDict,
               Exc("SMAPIError", "Could not find settingvalues in response", "None"), c.doc)
       ELSE IF sv.leaves = <<>>
       THEN RD("raise", EmptyDict,
               Exc("SMAPIError", "Cannot find any values in the settingvalues returned",
                   "None"), c.doc)
       ELSE IF \E i \in 1..Len(sv.leaves) : EqCount(sv.leaves[i]) # 1
       THEN RD("raise", EmptyDict, Exc("ValueError", "need more than 1 value to unpack",
                                       "None"), NoDoc)
       ELSE RD("return", PairsDict(sv.leaves), NoExc, NoDoc)

\* helpers.py: get_domains.  Every <string> node of the document, lower-cased
get_domains(opts, net) ==
    LET c == SMAPI_call(opts, <<"DomainAdmin">>, <<"GetAllDomains">>, {}, FALSE, net)
    IN IF c.kind = "raise" THEN RD("raise", <<>>, c.exc, NoDoc)
       ELSE RD("return",
               [i \in 1..Len(c.doc.domainnames.leaves) |-> Lower(c.doc.domainnames.leaves[i])],
               NoExc, NoDoc)

(***************************************************************************)
(* helpers.py: IMAP_Connection.  The object holds _options and _imap_conn, *)
(* the imaplib2 connection.  A connection is a session of the mail store:  *)
(* it opens in the state NONAUTH, a LOGIN answered OK takes it to AUTH, a  *)
(* SELECT answered OK to SELECTED, LOGOUT to LOGOUT, and imaplib2 refuses, *)
(* with IMAP4.error, a command its state does not allow.  st is the object *)
(* with the sessions: [obj, conn, sess], conn = 0 for _imap_conn = None.   *)
(***************************************************************************)
Session(state, logged_in) == [state |-> state, logged_in |-> logged_in]
NoSession == Session("none", FALSE)

IMObj(exists, username, password) ==
    [exists |-> exists, username |-> username, password |-> password]
NoIMObj == IMObj(FALSE, None, None)

IMState(obj, conn, sess) == [obj |-> obj, conn |-> conn, sess |-> sess]

\* a command handed to the connection s, and the state s was in
Cmd(cmd, s, state, arg) == [cmd |-> cmd, sess |-> s, state |-> state, arg |-> arg]

LibLegal(cmd) ==
    CASE cmd = "LOGIN" -> {"NONAUTH"}
      [] cmd \in {"LIST", "SELECT"} -> {"AUTH", "SELECTED"}
      [] cmd \in {"SEARCH", "FETCH"} -> {"SELECTED"}
      [] OTHER -> {"NONAUTH", "AUTH", "SELECTED", "LOGOUT"}

LibError == Exc("IMAP4.error", "command illegal in state", "None")

\* an answer (typ, data) of the connection
Answer(typ, data) == [typ |-> typ, data |-> data]

\* `if isinstance(data, list) and (len(data) == 1): data = data[0]`, then "%s" % data
NoReason == [as |-> "none", parts |-> <<>>]
Reason(data) == IF Len(data) = 1 THEN [as |-> "text", parts |-> <<data[1]>>]
                ELSE [as |-> "list", parts |-> data]

\* what an operation did: return or raise, the value, the server's reason in
\* the error message, the object and sessions after it, the commands issued
IMR(kind, exc, value, reason, st, cmds) ==
    [kind |-> kind, exc |-> exc, value |-> value, reason |-> reason, st |-> st,
     cmds |-> cmds]

HasFree(sess) == \E s \in DOMAIN sess : sess[s].state = "none"
FreeSession(sess) ==
    CHOOSE s \in DOMAIN sess :
        sess[s].state = "none" /\ \A t \in DOMAIN sess : sess[t].state = "none" => s <= t

\* the imap_connection property: the connection, opened when there is none
IMAP_imap_connection(st) ==
    IF st.conn # 0 THEN st
    ELSE LET s == FreeSession(st.sess)
         IN [st EXCEPT !.conn = s, !.sess[s] = Session("NONAUTH", FALSE)]

\* is_connected: a connection exists and its state is not empty
IMAP_is_connected(st) ==
    ~(st.conn = 0 \/ st.sess[st.conn].state = "")

\* is_authenticated: a connection exists, is connected, and its state is not None
IMAP_is_authenticated(st) ==
    IF st.conn = 0 THEN FALSE
    ELSE IF ~IMAP_is_connected(st) THEN FALSE
    ELSE st.sess[st.conn].state # "None"

IMAP_logout_DropOnly(st, cmds) == [st |-> [st EXCEPT !.conn = 0], cmds |-> cmds]

IMAP_logout(st, cmds) ==
    IF IMAP_is_authenticated(st)
    THEN [st |-> [st EXCEPT !.sess[st.conn].state = "LOGOUT", !.conn = 0],
          cmds |-> Append(cmds, Cmd("LOGOUT", st.conn, st.sess[st.conn].state, ""))]
    ELSE [st |-> [st EXCEPT !.conn = 0], cmds |-> cmds]

\* login after the credentials are decided (lines 171-186)
IMAP_login_send(lo, u, p, ans) ==
    LET st2 == IMAP_imap_connection(lo.st)
        c == st2.conn
        cmds == Append(lo.cmds, Cmd("LOGIN", c, st2.sess[c].state, ""))
    IN IF ans.typ # "OK"
       THEN IMR("raise", Exc("SMAPIError", "Unable to login to IMAP server", "None"), FALSE,
                Reason(ans.data), st2, cmds)
       ELSE IMR("return", NoExc, TRUE, NoReason,
                [st2 EXCEPT !.sess[c] = Session("AUTH", TRUE),
                            !.obj.username = u, !.obj.password = p],
                cmds)

IMAP_login(st, username, password, ans, cmds) ==
    LET u == IF Truthy(username) THEN username ELSE st.obj.username
        p == IF Truthy(password) THEN password ELSE st.obj.password
    IN IF ~Truthy(u)
       THEN IMR("raise",
                Exc("SMAPIError", "No username provided or stored for this connection", "None"),
                FALSE, NoReason, st, cmds)
       ELSE IF ~Truthy(p)
       THEN IMR("raise",
                Exc("SMAPIError", "No passworde provided or stored for this connection", "None"),
                FALSE, NoReason, st, cmds)
       ELSE IMAP_login_send(IF IMAP_is_authenticated(st) THEN IMAP_logout(st, cmds)
                            ELSE [st |-> st, cmds |-> cmds],
                            u, p, ans)

\* __init__: with do_login the connection's own login is called and its answer
\* dropped; without both credentials that call raises inside imaplib2, the
\* object is never bound and its connection is left behind
IMAP_init(sess, username, password, do_login, ans) ==
    LET st0 == IMState(IMObj(TRUE, username, password), 0, sess)
        st1 == IMAP_imap_connection(st0)
        c == st1.conn
        cmds == <<Cmd("LOGIN", c, st1.sess[c].state, "")>>
    IN IF ~do_login THEN IMR("return", NoExc, TRUE, NoReason, st0, <<>>)
       ELSE IF ~(username.some /\ password.some)
       THEN IMR("raise", Exc("TypeError", "login", "None"), FALSE, NoReason,
                IMState(NoIMObj, 0, [st1.sess EXCEPT ![c].state = "ABANDONED"]), <<>>)
       ELSE IF ans.typ = "OK"
       THEN IMR("return", NoExc, TRUE, NoReason,
                [st1 EXCEPT !.sess[c] = Session("AUTH", TRUE)], cmds)
       ELSE IMR("return", NoExc, TRUE, NoReason, st1, cmds)

\* the login at the head of get_folders and find_messages, when it is needed
IMAP_ensure_login(st, needed, ans) ==
    IF needed THEN IMAP_login(st, None, None, ans, <<>>)
    ELSE IMR("return", NoExc, TRUE, NoReason, st, <<>>)

\* a command on the connection: refused by imaplib2 in a state that does not allow it
LibRefuses(st, cmd) == st.sess[st.conn].state \notin LibLegal(cmd)
Issue(st, cmds, cmd, arg) == Append(cmds, Cmd(cmd, st.conn, st.sess[st.conn].state, arg))

(***************************************************************************)
(* get_folders and parse_imap_folders.  A line of the listing is a         *)
(* sequence of symbols: "(", ")", " ", the double quote DQ, "/", ".", the  *)
(* line break NL, and runs of other characters (flags, folder names).      *)
(***************************************************************************)
DQ == "\""

\* `.` matches every character but the line break
NoBreak(s, i, j) == \A k \in i..j : s[k] # NL

\* helpers.py:208, 217  re.match(folder_list_re, mbox): the ways the line can
\* begin with  ( flags ) " sep " " name "  -- a the ")" that ends the flags,
\* b the quote that ends the separator, c the quote that ends the name
FolderListMatches(s) ==
    {t \in (1..Len(s)) \X (1..Len(s)) \X (1..Len(s)) :
        /\ s[1] = "("
        /\ t[1] >= 2 /\ t[2] >= t[1] + 3 /\ t[3] >= t[2] + 3
        /\ NoBreak(s, 2, t[1] - 1)
        /\ s[t[1]] = ")" /\ s[t[1] + 1] = " " /\ s[t[1] + 2] = DQ
        /\ NoBreak(s, t[1] + 3, t[2] - 1)
        /\ s[t[2]] = DQ /\ s[t[2] + 1] = " " /\ s[t[2] + 2] = DQ
        /\ NoBreak(s, t[2] + 3, t[3] - 1)
        /\ s[t[3]] = DQ}

\* the match the regular expression engine takes: the flags as short as can
\* be, then the separator as long as can be, then the name as long as can be
FolderListTaken(M) ==
    CHOOSE t \in M :
        \A u \in M : \/ t[1] < u[1]
                     \/ t[1] = u[1] /\ t[2] > u[2]
                     \/ t[1] = u[1] /\ t[2] = u[2] /\ t[3] >= u[3]

\* m.group('name')
FolderListName(s, t) == SubSeq(s, t[2] + 3, t[3] - 1)

\* a listing line, well formed or with the quoted name missing
ListLine(shaped, name) ==
    IF shaped THEN <<"(", "\\HasNoChildren", ")", " ", DQ, "/", DQ, " ", DQ, name, DQ>>
    ELSE <<"(", "\\HasNoChildren", ")", " ", DQ, "/", DQ>>

\* helpers.py:216-222: the names of the lines that match, the others skipped
RECURSIVE FolderNames(_)
FolderNames(lines) ==
    IF lines = <<>> THEN <<>>
    ELSE IF FolderListMatches(Head(lines)) # {}
    THEN <<FolderListName(Head(lines), FolderListTaken(FolderListMatches(Head(lines))))>>
         \o FolderNames(Tail(lines))
    ELSE FolderNames(Tail(lines))

\* helpers.py:124  '"/"' in fdr: where the line holds the text "/" in quotes
SepAt(s) == {i \in 1..Len(s) - 2 : s[i] = DQ /\ s[i + 1] = "/" /\ s[i + 2] = DQ}
Least(S) == CHOOSE i \in S : \A j \in S : i <= j

\* helpers.py:127  fdr.split('"/"')[-1]
RECURSIVE AfterLastSep(_)
AfterLastSep(s) ==
    IF SepAt(s) = {} THEN s
    ELSE AfterLastSep(SubSeq(s, Least(SepAt(s)) + 3, Len(s)))

\* helpers.py:128  re.search of: an optional space, a quote, the folder, a
\* quote at the end of the text (or before its final line break) -- p where
\* the match starts, o the opening quote, q the closing one
FolderSearchMatches(r) ==
    {t \in (1..Len(r)) \X (1..Len(r)) \X (1..Len(r)) :
        /\ \/ t[2] = t[1] /\ r[t[1]] = DQ
           \/ t[2] = t[1] + 1 /\ r[t[1]] = " " /\ r[t[2]] = DQ
        /\ t[3] > t[2]
        /\ r[t[3]] = DQ
        /\ \/ t[3] = Len(r)
           \/ t[3] = Len(r) - 1 /\ r[Len(r)] = NL
        /\ NoBreak(r, t[2] + 1, t[3] - 1)}

\* the leftmost match, its folder as short as can be
FolderSearchTaken(M) ==
    CHOOSE t \in M : \A u \in M : t[1] < u[1] \/ (t[1] = u[1] /\ t[3] <= u[3])

\* m.group('folder')
FolderSearchName(r, t) == SubSeq(r, t[2] + 1, t[3] - 1)

\* helpers.py: parse_imap_folders
RECURSIVE parse_imap_folders(_)
parse_imap_folders(folders) ==
    IF folders = <<>> THEN <<>>
    ELSE IF SepAt(Head(folders)) = {} THEN parse_imap_folders(Tail(folders))
    ELSE IF FolderSearchMatches(AfterLastSep(Head(folders))) = {}
    THEN parse_imap_folders(Tail(folders))
    ELSE <<FolderSearchName(AfterLastSep(Head(folders)),
                            FolderSearchTaken(FolderSearchMatches(AfterLastSep(Head(folders)))))>>
         \o parse_imap_folders(Tail(folders))

IMAP_get_folders_list(lg, lines) ==
    LET st == IMAP_imap_connection(lg.st)
        cmds == Issue(st, lg.cmds, "LIST", "")
    IN IF LibRefuses(st, "LIST")
       THEN IMR("raise", LibError, <<>>, NoReason, st, cmds)
       ELSE IMR("return", NoExc, FolderNames(lines), NoReason, st, cmds)

IMAP_get_folders(st, ans, lines) ==
    LET lg == IMAP_ensure_login(st, ~IMAP_is_authenticated(st), ans)
    IN IF lg.kind = "raise" THEN lg ELSE IMAP_get_folders_list(lg, lines)

(***************************************************************************)
(* find_messages.  The header of a fetched message is a sequence of        *)
(* symbols; the re.match of line 255, with IGNORECASE, wants the header to *)
(* begin with "Message-ID: <" in any case, and takes what stands between   *)
(* that and the last ">".                                                  *)
(***************************************************************************)
MsgIdMatches(h) ==
    /\ Len(h) >= 2
    /\ h[1] \in {"Message-ID: <", "message-id: <"}
    /\ \E i \in 2..Len(h) : h[i] = ">"

MsgId(h) ==
    LET last == CHOOSE i \in 2..Len(h) : h[i] = ">" /\ \A j \in 2..Len(h) : h[j] = ">" => j <= i
    IN SubSeq(h, 2, last - 1)

\* data[0].split(' '): the handles of the SEARCH answer; '' splits into ['']
SplitHandles(found) == IF found = <<>> THEN <<"">> ELSE found

FetchAnswer(typ, header, contents) == [typ |-> typ, header |-> header, contents |-> contents]

\* the for loop over the handles, from the i-th on
RECURSIVE FetchLoop(_, _, _, _, _, _)
FetchLoop(st, handles, answers, i, messages, cmds) ==
    IF i > Len(handles)
    THEN IMR("return", NoExc, messages, NoReason, st, cmds)
    ELSE LET a == answers[i]
             issued == Issue(st, cmds, "FETCH", handles[i])
         IN IF a.typ # "OK"
            THEN FetchLoop(st, handles, answers, i + 1, messages, issued)
            ELSE IF ~MsgIdMatches(a.header)
            THEN FetchLoop(st, handles, answers, i + 1, messages, issued)
            ELSE FetchLoop(st, handles, answers, i + 1,
                           [m \in DOMAIN messages \cup {MsgId(a.header)} |->
                               IF m = MsgId(a.header)
                               THEN [id |-> handles[i], contents |-> a.contents]
                               ELSE messages[m]],
                           issued)

\* find_messages from SEARCH on; the connection is in the state SELECTED
IMAP_find_messages_search(st, cmds0, srch, answers) ==
    LET cmds == Issue(st, cmds0, "SEARCH", "ALL")
    IN IF LibRefuses(st, "SEARCH")
       THEN IMR("raise", LibError, EmptyDict, NoReason, st, cmds)
       ELSE IF srch.typ # "OK"
       THEN IMR("raise", Exc("SMAPIError", "Unable to search for messages in mailbox", "None"),
                EmptyDict, Reason(srch.data), st, cmds)
       ELSE FetchLoop(st, SplitHandles(srch.data), answers, 1, EmptyDict, cmds)

\* find_messages with a mailbox: SELECT; a failed SELECT leaves the session in AUTH
IMAP_find_messages_select(st, cmds0, mailbox, sel, srch, answers) ==
    LET cmds == Issue(st, cmds0, "SELECT", mailbox.s[1])
        c == st.conn
    IN IF LibRefuses(st, "SELECT")
       THEN IMR("raise", LibError, EmptyDict, NoReason, st, cmds)
       ELSE IF sel.typ # "OK"
       THEN IMR("raise", Exc("SMAPIError", "Unable to select mailbox", "None"), EmptyDict,
                Reason(sel.data), [st EXCEPT !.sess[c].state = "AUTH"], cmds)
       ELSE IMAP_find_messages_search([st EXCEPT !.sess[c].state = "SELECTED"], cmds, srch,
                                      answers)

IMAP_find_messages_mailbox_Unchecked(lg, mailbox, sel, srch, answers) ==
    LET st == IMAP_imap_connection(lg.st)
    IN IF ~Truthy(mailbox)
       THEN IMAP_find_messages_search(st, lg.cmds, srch, answers)
       ELSE IMAP_find_messages_select(st, lg.cmds, mailbox, sel, srch, answers)

IMAP_find_messages_mailbox(lg, mailbox, sel, srch, answers) ==
    LET st == IMAP_imap_connection(lg.st)
    IN IF ~Truthy(mailbox)
       THEN IF st.sess[st.conn].state # "SELECTED"
            THEN IMR("raise",
                     Exc("SMAPIError", "No mailbox provided or previously selected", "None"),
                     EmptyDict, NoReason, st, lg.cmds)
            ELSE IMAP_find_messages_search(st, lg.cmds, srch, answers)
       ELSE IMAP_find_messages_select(st, lg.cmds, mailbox, sel, srch, answers)

IMAP_find_messages(st, mailbox, ans, sel, srch, answers) ==
    LET lg == IMAP_ensure_login(st, ~IMAP_is_connected(st) \/ ~IMAP_is_authenticated(st), ans)
    IN IF lg.kind = "raise" THEN [lg EXCEPT !.value = EmptyDict]
       ELSE IMAP_find_messages_mailbox(lg, mailbox, sel, srch, answers)

(***************************************************************************)
(* Inputs.                                                                 *)
(***************************************************************************)
Statuses == {200, 201, 204, 304, 404, 500}

JsonKeys == {K_RESULT, K_AUTHTOKEN}
\* the bodies tried with every status, scope and use_exceptions
FewBodies == {TextBody(<<>>),
              TextBody(<<"RESULT", "=", "TRUE", NL, "AUTHTOKEN", "=", "TRUE">>),
              JsonBody([k \in JsonKeys |-> V_TRUE]),
              JsonBody(EmptyDict)}

ScopeNames == {None, Some(<<"mail">>), Some(<<"MAIL">>), Some(<<"crm">>), Some(<<"w">>),
               Some(<<"Zoho", "W", "/", "w">>), Some(<<"Zoho", "/", "w">>)}

Net(resp) == [err |-> "None", resp |-> resp]
NetError(err) == [err |-> err, resp |-> NoResponse]

FTArgs(use_exceptions, scope_name, net) ==
    [email_id |-> Some(<<"alice@example.com">>), password |-> <<"secret">>,
     use_exceptions |-> use_exceptions, scope_name |-> scope_name, net |-> net]

\* every body with status 200; a few bodies with every status, scope and flag
IsTokenInput(a) ==
    \/ \E n \in 0..MaxBody : \E c \in [1..n -> Chars] :
          a = FTArgs(TRUE, None, Net(Response(200, TextBody(c))))
    \/ \E ks \in SUBSET JsonKeys : \E d \in [ks -> Str(1)] :
          a = FTArgs(TRUE, None, Net(Response(200, JsonBody(d))))
    \/ \E u \in BOOLEAN, sc \in ScopeNames, st \in Statuses, b \in FewBodies :
          a = FTArgs(u, sc, Net(Response(st, b)))
    \/ \E u \in BOOLEAN : a = FTArgs(u, None, NetError("ConnectionError"))

NoFT == FT("none", None, NoExc, <<>>, EmptyDict, <<>>, <<>>, NoResponse)

(***************************************************************************)
(* The ZohoAPI objects.  Nothing is stored on an object: every field lives *)
(* in the class dict.  zh_insts records which objects exist and the token  *)
(* and account id each was constructed with.                               *)
(***************************************************************************)
Insts == {"z1", "z2"}

NoInst == [live |-> FALSE, token |-> None, email_id |-> None]

TokA == <<"h16a", "h16a">>
TokB == <<"h16b", "h16b">>

TokenArgs == {TokA, TokB, TokA \o <<NL>>, <<"h16a", "H16">>, <<"h16a", "h16a", "c1">>,
              <<"secret">>}

Emails == {None, Some(<<"alice@example.com">>)}

\* answers of the token endpoint
TokenNets ==
    {Net(Response(200, JsonBody([k \in JsonKeys |-> IF k = K_RESULT THEN V_TRUE ELSE TokB]))),
     Net(Response(200, TextBody(<<"RESULT", "=", "TRUE", NL, "AUTHTOKEN", "=">> \o TokA))),
     Net(Response(200, JsonBody([k \in {K_RESULT} |-> V_TRUE]))),
     Net(Response(200, JsonBody([k \in JsonKeys |-> IF k = K_RESULT THEN V_TRUE
                                                      ELSE <<"secret">>]))),
     Net(Response(404, TextBody(<<>>))),
     NetError("ConnectionError")}

JsonVals == {JsonVal("absent", 0), JsonVal("null", 0), JsonVal("list", 0),
             JsonVal("list", 2), JsonVal("dict", 0), JsonVal("dict", 1),
             JsonVal("num", 0), JsonVal("str", 0), JsonVal("str", 3)}

ApiBodies == {ApiJson(st, d, FALSE) : st \in {"absent", "empty", "desc", "nodesc"},
                                      d \in JsonVals}
             \cup {ApiJson("absent", JsonVal("absent", 0), TRUE), ApiText}

ApiNets == {Net(Response(st, b)) : st \in Statuses, b \in ApiBodies}
           \cup {NetError("ConnectionError")}

\* the answers tried while objects are constructed and called in turn
FewApiNets == {Net(Response(200, ApiJson("desc", JsonVal("list", 2), FALSE))),
               Net(Response(304, ApiJson("desc", JsonVal("absent", 0), FALSE))),
               Net(Response(200, ApiText)),
               Net(Response(500, ApiJson("desc", JsonVal("list", 2), FALSE)))}

Methods == {"GET", "post", "DELETE", "patch"}

CallArgs(op, i, method, params, use_exceptions, net, out) ==
    [op |-> op, inst |-> i, method |-> method, params |-> params,
     use_exceptions |-> use_exceptions, net |-> net, out |-> out]

NoZC == ZC("none", PyNone, NoExc, <<>>, <<>>, NoResponse)

NoOp == [op |-> "none", inst |-> "z1"]

ZohoIdle ==
    /\ ZohoAPI_options = ClassOptions0
    /\ zh_insts = [i \in Insts |-> NoInst]
    /\ zh_last = NoOp

TokenIdle ==
    /\ ft_args = FTArgs(TRUE, None, Net(NoResponse))
    /\ ft_pc = "idle"
    /\ ft_out = NoFT

\* answers of the admin service
UserNames == {<<ToString(n)>> : n \in 1..MaxUsers}

Leaves == {<<>>,
           <<<<"password", "=", "v">>>>,
           <<<<"password", "=", "v">>, <<"displayname", "=">>>>,
           <<<<"password">>>>,
           <<<<"password", "=", "v", "=", "w">>>>}

AdminDocs == {Doc(<<>>, SettingValues(FALSE, <<>>))}
             \cup {Doc(<<>>, SettingValues(TRUE, l)) : l \in Leaves}

AdminErrors == {"ConnectionError", "Timeout", "HTTPError"}

AdminNets == {Net(AdminResponse(st, d)) :
                 st \in Statuses,
                 d \in {Doc(<<>>, SettingValues(FALSE, <<>>)),
                        Doc(<<<<"1">>>>, SettingValues(TRUE, <<<<"password", "=", "v">>>>))}}
             \cup {NetError(e) : e \in AdminErrors}

\* the answers to a detail lookup
LookupNets == {Net(AdminResponse(200, d)) : d \in AdminDocs}
              \cup {NetError("ConnectionError"), NetError("HTTPError")}

\* the listings of a domain: the users in the order their nodes come
RECURSIVE Listings(_)
Listings(n) ==
    IF n = 0 THEN {<<>>}
    ELSE Listings(n - 1)
         \cup {Append(l, u) : l \in {x \in Listings(n - 1) : Len(x) = n - 1},
                              u \in UserNames}

IsOrderOf(order, keys) ==
    /\ Len(order) = Cardinality(keys)
    /\ {order[i] : i \in 1..Len(order)} = keys

NoSMOp == [op |-> "none"]
NoGU == [kind |-> "none", exc |-> NoExc, value |-> EmptyDict]
NoGUArgs == [domain |-> <<>>, requested_settings |-> {}, require_extra_info |-> FALSE,
             net |-> Net(AdminResponse(0, NoDoc))]

AdminIdle ==
    /\ sm_options = NoSMAPI
    /\ sm_last = NoSMOp

UsersIdle ==
    /\ gu_pc = "idle"
    /\ gu_args = NoGUArgs
    /\ gu_users = EmptyDict
    /\ gu_todo = <<>>
    /\ gu_lookups = <<>>
    /\ gu_out = NoGU

\* answers of the mail store
LoginAnswers == {Answer("OK", <<"LOGIN completed">>), Answer("NO", <<"LOGIN failed">>),
                 Answer("NO", <<"LOGIN failed", "try later">>)}
Answers == {Answer("OK", <<"completed">>), Answer("NO", <<"failed">>)}

Credentials == {None, Some(<<"u1">>), Some(<<"u2">>)}
Mailboxes == {None, Some(<<"INBOX">>)}

Handles == [n \in 1..MaxMsgs |-> ToString(n)]

\* what a SEARCH finds: the first n handles
Found == {SubSeq(Handles, 1, n) : n \in 0..MaxMsgs}

Headers == {<<"Message-ID: <", "a", ">">>, <<"message-id: <", "b", ">">>,
            <<"Message-ID: <", "a", ">", "b", ">">>, <<>>,
            <<"X-Id: ", "Message-ID: <", "a", ">">>}

FetchAnswers == {FetchAnswer("OK", h, c) : h \in Headers, c \in {"raw1", "raw2"}}
                \cup {FetchAnswer("NO", <<>>, "")}

\* the answers to the FETCH of each handle: an empty handle fetches nothing
IsFetchAnswers(handles, answers) ==
    \A i \in 1..Len(handles) : handles[i] = "" => answers[i].typ = "NO"

ListLines == {<<>>, <<ListLine(TRUE, "INBOX"), ListLine(FALSE, ""), ListLine(TRUE, "Sent")>>}

NoIMOp == [op |-> "none"]
NoSessions == [s \in 1..MaxSessions |-> NoSession]

ImapIdle ==
    /\ im_obj = NoIMObj
    /\ im_conn = 0
    /\ im_sess = NoSessions
    /\ im_last = NoIMOp

imapVars == <<im_obj, im_conn, im_sess, im_last>>
zohoVars == <<ZohoAPI_options, zh_insts, zh_last>>
tokenVars == <<ft_args, ft_pc, ft_out>>
adminVars == <<sm_options, sm_last>>
usersVars == <<gu_pc, gu_args, gu_users, gu_todo, gu_lookups, gu_out>>
errorVars == <<ex_objs, ex_last>>

\* what the operations of one component leave alone
notToken == <<zohoVars, adminVars, usersVars, imapVars, errorVars>>
notZoho == <<tokenVars, adminVars, usersVars, imapVars, errorVars>>
notAdmin == <<ZohoError_options, zohoVars, tokenVars, usersVars, imapVars, errorVars>>
notUsers == <<ZohoError_options, zohoVars, tokenVars, sm_options, sm_last, imapVars, errorVars>>
notImap == <<ZohoError_options, zohoVars, tokenVars, adminVars, usersVars, errorVars>>

(***************************************************************************)
(* The exception objects in use: errors are constructed, as the core does  *)
(* when it raises, and their attributes are read by whoever caught them.   *)
(***************************************************************************)
ErrIds == {"e1", "e2"}
ErrMessages == {"No server hostname provided", "No HTTP response"}
ErrCauses == {"None", "ValueError"}
ErrResponses == {NoResponse, Response(200, TextBody(<<>>)), Response(404, TextBody(<<>>))}
ErrDumps == {DumpNone}
            \cup {[some |-> TRUE, d |-> [k \in {"result"} |-> r]] :
                     r \in {Response(200, TextBody(<<>>))}}
            \cup {[some |-> TRUE, d |-> [k \in {"http_response"} |-> r]] :
                     r \in {Response(200, TextBody(<<>>))}}
ErrFields == {"message", "base_ex", "dump_objs", "str", "http_response"}

NoErrOp == [op |-> "none", err |-> "e1"]

ErrorsIdle ==
    /\ ex_objs = [e \in ErrIds |-> NoErrObj]
    /\ ex_last = NoErrOp

notErrors == <<zohoVars, tokenVars, adminVars, usersVars, imapVars>>

InitErrors ==
    /\ ZohoError_options = NoResponse /\ ErrorsIdle
    /\ ZohoIdle /\ TokenIdle /\ AdminIdle /\ UsersIdle /\ ImapIdle

RaiseSMAPIError(e) ==
    /\ ~ex_objs[e].live
    /\ \E message \in ErrMessages, base_ex \in ErrCauses, dump_objs \in ErrDumps :
          /\ ex_objs' = [ex_objs EXCEPT ![e] = SMAPIError_init(message, base_ex, dump_objs)]
          /\ ex_last' = [op |-> "init", err |-> e, out |-> ER("return", None, NoExc)]
    /\ UNCHANGED <<ZohoError_options, notErrors>>

RaiseZohoError(e) ==
    /\ ~ex_objs[e].live
    /\ \E message \in ErrMessages, base_ex \in ErrCauses, dump_objs \in ErrDumps,
          http_response \in ErrResponses :
          LET made == ZohoError_init(message, base_ex, dump_objs, http_response,
                                     ZohoError_options)
          IN /\ ZohoError_options' = made.zopts
             /\ IF made.exc.type = "ZohoError"
                THEN /\ ex_objs' = [ex_objs EXCEPT ![e] =
                                       ErrObj("ZohoError",
                                              ErrValues(message, base_ex, dump_objs),
                                              made.zopts)]
                     /\ ex_last' = [op |-> "init", err |-> e,
                                    out |-> ER("return", None, NoExc)]
                ELSE /\ ex_objs' = ex_objs
                     /\ ex_last' = [op |-> "init", err |-> e,
                                    out |-> ER("raise", None, made.exc)]
    /\ UNCHANGED notErrors

ReadError(e) ==
    /\ ex_objs[e].live
    /\ \E field \in ErrFields :
          /\ field = "http_response" => ex_objs[e].cls = "ZohoError"
          /\ ex_last' = [op |-> "read", err |-> e, field |-> field,
                         out |-> CASE field = "http_response" ->
                                        ZohoError_http_response(ex_objs[e], ZohoError_options)
                                   [] field = "str" -> SMAPIError_str(ex_objs[e])
                                   [] OTHER -> SMAPIError_property(ex_objs[e], field)]
    /\ UNCHANGED <<ex_objs, ZohoError_options, notErrors>>

\* the exception object is dropped
DropError(e) ==
    /\ ex_objs[e].live
    /\ ex_objs' = [ex_objs EXCEPT ![e] = NoErrObj]
    /\ ex_last' = [op |-> "drop", err |-> e]
    /\ UNCHANGED <<ZohoError_options, notErrors>>

NextErrors == \E e \in ErrIds : RaiseSMAPIError(e) \/ RaiseZohoError(e) \/ ReadError(e)
                                \/ DropError(e)

SpecErrors == InitErrors /\ [][NextErrors]_vars

(***************************************************************************)
(* fetch_token as a function of its arguments and of the response.         *)
(***************************************************************************)
InitToken ==
    /\ ZohoError_options = NoResponse /\ ErrorsIdle
    /\ IsTokenInput(ft_args)
    /\ ft_pc = "start"
    /\ ft_out = NoFT
    /\ ZohoIdle /\ AdminIdle /\ UsersIdle /\ ImapIdle

FetchToken ==
    /\ ft_pc = "start"
    /\ ft_out' = ZohoAPI_fetch_token(ft_args.email_id, ft_args.password,
                                     ft_args.use_exceptions, ft_args.scope_name,
                                     ft_args.net, ZohoError_options)
    /\ ZohoError_options' = ft_out'.zopts
    /\ ft_pc' = "done"
    /\ UNCHANGED <<ft_args, notToken>>

NextToken == FetchToken

SpecToken == InitToken /\ [][NextToken]_vars

(***************************************************************************)
(* The ZohoAPI class in use: objects are constructed (directly or through  *)
(* from_email_id) and called, one operation after the other.               *)
(***************************************************************************)
InitZoho ==
    /\ ZohoError_options = NoResponse /\ ErrorsIdle
    /\ ZohoIdle
    /\ TokenIdle /\ AdminIdle /\ UsersIdle /\ ImapIdle

\* what construction leaves behind: the object exists when __init__ returned
Constructed(i, r, email_id) ==
    IF r.kind = "ok"
    THEN [zh_insts EXCEPT ![i] = [live |-> TRUE, token |-> r.opts.token,
                                  email_id |-> email_id]]
    ELSE zh_insts

\* the arguments tried: every token argument with the default scope, and the
\* scope names with a token that needs no fetch
ConstructInputs ==
    {<<t, e, FALSE, None, n>> : t \in TokenArgs, e \in Emails, n \in TokenNets}
    \cup {<<TokA, e, TRUE, None, Net(Response(404, TextBody(<<>>)))>> : e \in Emails}
    \cup {<<TokA, None, FALSE, sc, Net(NoResponse)>> : sc \in {Some(<<"crm">>), Some(<<"w">>)}}

ZohoConstruct(i) ==
    /\ ~zh_insts[i].live
    /\ \E a \in ConstructInputs :
          LET r == ZohoAPI_init(a[1], a[2], a[4], a[3], a[5],
                                ZohoAPI_options, ZohoError_options)
          IN /\ ZohoAPI_options' = r.opts
             /\ ZohoError_options' = r.zopts
             /\ zh_insts' = Constructed(i, r, a[2])
             /\ zh_last' = [op |-> "init", inst |-> i, token |-> a[1],
                            email_id |-> a[2], fetch_token |-> a[3],
                            scope_name |-> a[4], net |-> a[5], out |-> r]
    /\ UNCHANGED notZoho

ZohoFromEmailId(i) ==
    /\ ~zh_insts[i].live
    /\ \E password \in {<<"secret">>}, email_id \in Emails \ {None},
          scope_name \in {None, Some(<<"w">>)}, net1 \in TokenNets,
          net2 \in {NetError("ConnectionError")} :
          LET r == ZohoAPI_from_email_id(email_id, password, scope_name, net1, net2,
                                         ZohoAPI_options, ZohoError_options)
          IN /\ ZohoAPI_options' = r.opts
             /\ ZohoError_options' = r.zopts
             /\ zh_insts' = Constructed(i, r, email_id)
             /\ zh_last' = [op |-> "from_email_id", inst |-> i, password |-> password,
                            email_id |-> email_id, scope_name |-> scope_name,
                            net |-> net1, net2 |-> net2, out |-> r]
    /\ UNCHANGED notZoho

\* _call_zoho on the object i, and what it leaves behind
DoCall(i, method, params, use_exceptions, net) ==
    LET r == ZohoAPI_call_zoho(<<"accounts">>, params, method, use_exceptions, net,
                               ZohoAPI_options, ZohoError_options)
    IN /\ ZohoError_options' = r.zopts
       /\ zh_last' = CallArgs("call", i, method, params, use_exceptions, net, r)
       /\ UNCHANGED <<ZohoAPI_options, zh_insts, notZoho>>

ZohoCall(i) ==
    /\ zh_insts[i].live
    /\ \E method \in {"GET", "patch"}, use_exceptions \in BOOLEAN, net \in FewApiNets :
          /\ method = "patch" => use_exceptions /\ net = Net(Response(200, ApiText))
          /\ DoCall(i, method, <<>>, use_exceptions, net)

NextZoho == \E i \in Insts : ZohoConstruct(i) \/ ZohoFromEmailId(i) \/ ZohoCall(i)

SpecZoho == InitZoho /\ [][NextZoho]_vars

(***************************************************************************)
(* _call_zoho as a function of its arguments and of the response: one      *)
(* object, constructed with a token, makes one call.                       *)
(***************************************************************************)
InitCall ==
    /\ ZohoError_options = NoResponse /\ ErrorsIdle
    /\ \E token \in {TokA, TokB} :
          /\ ZohoAPI_options = ClassOptions(None, Some(token), Some(SCOPES[<<"mail">>]))
          /\ zh_insts = [i \in Insts |-> IF i = "z1"
                                         THEN [live |-> TRUE, token |-> Some(token),
                                               email_id |-> None]
                                         ELSE NoInst]
    /\ \E method \in Methods, params \in {<<>>, <<"p">>}, use_exceptions \in BOOLEAN,
          net \in ApiNets :
          zh_last = CallArgs("pending", "z1", method, params, use_exceptions, net, NoZC)
    /\ TokenIdle /\ AdminIdle /\ UsersIdle /\ ImapIdle

CallZoho ==
    /\ zh_last.op = "pending"
    /\ DoCall(zh_last.inst, zh_last.method, zh_last.params, zh_last.use_exceptions,
              zh_last.net)

NextCall == CallZoho

SpecCall == InitCall /\ [][NextCall]_vars

(***************************************************************************)
(* The two REST operations side by side: one fetch_token call, or one      *)
(* _call_zoho call, on its inputs.                                         *)
(***************************************************************************)
InitRest == InitToken \/ InitCall

NextRest == FetchToken \/ CallZoho

SpecRest == InitRest /\ [][NextRest]_vars

(***************************************************************************)
(* The admin client: an SMAPI object is constructed, then called.          *)
(***************************************************************************)
Hosts == {None, Some(<<"mail.example.com">>)}
Names == {None, Some(<<"admin">>)}
Passwords == {None, Some(<<"pw">>)}
PortArgs == {PortNone, Port("int", 0), Port("int", 8080), Port("int", -1),
             Port("str", 8080), Port("str", 0), Port("word", 0)}
ServiceNames == SERVICES \cup {<<"Bogus">>, <<"useradmin">>}
MethodNames == {<<"GetAllDomains">>, <<"GetUsers">>}

InitAdmin ==
    /\ ZohoError_options = NoResponse /\ ErrorsIdle
    /\ AdminIdle
    /\ ZohoIdle /\ TokenIdle /\ UsersIdle /\ ImapIdle

SMAPIConstruct ==
    /\ \E server \in Hosts, username \in Names, password \in Passwords,
          use_ssl \in BOOLEAN, port \in PortArgs :
          LET r == SMAPI_init(server, username, password, use_ssl, port)
          IN /\ sm_options' = r.opts
             /\ sm_last' = [op |-> "init", server |-> server, username |-> username,
                            password |-> password, use_ssl |-> use_ssl, port |-> port,
                            out |-> r]
    /\ UNCHANGED notAdmin

SMAPICall ==
    /\ sm_options # NoSMAPI
    /\ \E srv_name \in ServiceNames, method \in MethodNames,
          params \in {{"DomainName"}}, use_post \in BOOLEAN, net \in AdminNets :
          sm_last' = [op |-> "call", srv_name |-> srv_name, method |-> method,
                      params |-> params, use_post |-> use_post, net |-> net,
                      out |-> SMAPI_call(sm_options, srv_name, method, params, use_post,
                                         net)]
    /\ UNCHANGED <<sm_options, notAdmin>>

NextAdmin == SMAPIConstruct \/ SMAPICall

SpecAdmin == InitAdmin /\ [][NextAdmin]_vars

(***************************************************************************)
(* The admin client read through its helpers: an SMAPI object is           *)
(* constructed, then the read helpers are called on it.                    *)
(***************************************************************************)
Texts == {<<>>, <<"mail">>, <<"MAIL">>}

Containers == {Container(FALSE, <<>>), Container(TRUE, <<>>)}
              \cup {Container(TRUE, <<a>>) : a \in Texts}
              \cup {Container(TRUE, <<a, b>>) : a \in Texts \ {<<>>}, b \in {<<"w">>}}

DomainNets == {Net(AdminResponse(200, DomainsDoc(c))) : c \in Containers}
              \cup {NetError("ConnectionError"), NetError("HTTPError")}

UserListNets == {Net(AdminResponse(200, UsersDoc(c))) : c \in Containers}
                \cup {Net(AdminResponse(200, UsersDoc(Container(TRUE, <<<<NL>>, <<"W">>>>))))}
                \cup {NetError("ConnectionError"), NetError("HTTPError")}

ReadDone(op, net, r) == sm_last' = [op |-> op, net |-> net, out |-> r]

GetAllDomains ==
    /\ sm_options # NoSMAPI
    /\ \E net \in DomainNets : ReadDone("get_all_domains", net, SMAPI_get_all_domains(sm_options, net))
    /\ UNCHANGED <<sm_options, notAdmin>>

GetDomainUsers ==
    /\ sm_options # NoSMAPI
    /\ \E net \in UserListNets :
          ReadDone("get_domain_users", net,
                   SMAPI_get_domain_users(sm_options, <<"example.com">>, net))
    /\ UNCHANGED <<sm_options, notAdmin>>

GetRequestedUserSettings ==
    /\ sm_options # NoSMAPI
    /\ \E net \in LookupNets :
          ReadDone("get_requested_user_settings", net,
                   SMAPI_get_requested_user_settings(sm_options, <<"1">>, {"password"}, net))
    /\ UNCHANGED <<sm_options, notAdmin>>

GetDomains ==
    /\ sm_options # NoSMAPI
    /\ \E net \in DomainNets : ReadDone("get_domains", net, get_domains(sm_options, net))
    /\ UNCHANGED <<sm_options, notAdmin>>

GetUser ==
    /\ sm_options # NoSMAPI
    /\ \E net \in LookupNets :
          LET r == get_user(sm_options, <<"1">>, {"password"}, net)
          IN ReadDone("get_user", net, RD(r.kind, r.info, r.exc, NoDoc))
    /\ UNCHANGED <<sm_options, notAdmin>>

NextRead == SMAPIConstruct \/ GetAllDomains \/ GetDomainUsers \/ GetRequestedUserSettings
            \/ GetDomains \/ GetUser

SpecRead == InitAdmin /\ [][NextRead]_vars

(***************************************************************************)
(* helpers.py: get_users, one call.  GetUsersStart is the listing request  *)
(* and the building of the users dict; GetUsersLookup is one turn of the   *)
(* for loop, with the answer to that user's detail request.  A dict is     *)
(* walked in an order the caller does not choose.                          *)
(***************************************************************************)
InitUsers ==
    /\ ZohoError_options = NoResponse /\ ErrorsIdle
    /\ \E use_ssl \in BOOLEAN :
          sm_options = SMOptions(Some(<<"mail.example.com">>), Some(<<"admin">>),
                                 Some(<<"pw">>), use_ssl, PortNone)
    /\ sm_last = NoSMOp
    /\ UsersIdle
    /\ ZohoIdle /\ TokenIdle /\ ImapIdle

GUReturn(users) == [kind |-> "return", exc |-> NoExc, value |-> users]
GURaise(exc) == [kind |-> "raise", exc |-> exc, value |-> EmptyDict]

GetUsersStart ==
    /\ gu_pc = "idle"
    /\ \E requested_settings \in {{}, {"password", "displayname"}},
          require_extra_info \in BOOLEAN,
          listing \in Listings(MaxUsers) :
       \E net \in {Net(AdminResponse(200, Doc(listing, SettingValues(FALSE, <<>>)))),
                   NetError("ConnectionError")} :
          LET c == SMAPI_call(sm_options, <<"UserAdmin">>, <<"GetUsers">>, {"DomainName"},
                              FALSE, net)
              users == BaseUsers(c.doc)
          IN /\ gu_args' = [domain |-> <<"example.com">>,
                            requested_settings |-> requested_settings,
                            require_extra_info |-> require_extra_info, net |-> net]
             /\ gu_lookups' = <<>>
             /\ IF c.kind = "raise"
                THEN /\ gu_pc' = "done"
                     /\ gu_out' = GURaise(c.exc)
                     /\ gu_users' = EmptyDict
                     /\ gu_todo' = <<>>
                ELSE /\ gu_users' = users
                     /\ IF requested_settings = {} \/ DOMAIN users = {}
                        THEN /\ gu_pc' = "done"
                             /\ gu_out' = GUReturn(users)
                             /\ gu_todo' = <<>>
                        ELSE /\ gu_pc' = "loop"
                             /\ gu_out' = NoGU
                             /\ \E order \in [1..Cardinality(DOMAIN users) -> DOMAIN users] :
                                   /\ IsOrderOf(order, DOMAIN users)
                                   /\ gu_todo' = order
    /\ UNCHANGED notUsers

\* the end of one turn of the loop: the next user, or `return users`
GUContinue(users) ==
    /\ gu_todo' = Tail(gu_todo)
    /\ gu_users' = users
    /\ IF Tail(gu_todo) = <<>>
       THEN gu_pc' = "done" /\ gu_out' = GUReturn(users)
       ELSE gu_pc' = "loop" /\ gu_out' = NoGU

GetUsersLookup ==
    /\ gu_pc = "loop"
    /\ \E net \in LookupNets :
          LET usr == Head(gu_todo)
              r == get_user(sm_options, usr, gu_args.requested_settings, net)
          IN IF r.kind = "return"
             THEN /\ GUContinue([gu_users EXCEPT ![usr] = DictUpdate(@, r.info)])
                  /\ gu_lookups' = Append(gu_lookups, [usr |-> usr, ok |-> TRUE])
             ELSE /\ gu_lookups' = Append(gu_lookups, [usr |-> usr, ok |-> FALSE])
                  /\ IF gu_args.require_extra_info
                     THEN /\ gu_pc' = "done"
                          /\ gu_out' = GURaise(LookupFailure(r.exc))
                          /\ UNCHANGED <<gu_users, gu_todo>>
                     ELSE GUContinue(gu_users)
    /\ UNCHANGED <<gu_args, notUsers>>

NextUsers == GetUsersStart \/ GetUsersLookup

SpecUsers == InitUsers /\ [][NextUsers]_vars

(***************************************************************************)
(* The IMAP_Connection object in use: constructed, then login, logout,     *)
(* get_folders and find_messages in any order.                             *)
(***************************************************************************)
InitImap ==
    /\ ZohoError_options = NoResponse /\ ErrorsIdle
    /\ ImapIdle
    /\ ZohoIdle /\ TokenIdle /\ AdminIdle /\ UsersIdle

IMNow == IMState(im_obj, im_conn, im_sess)

\* the state of the connection held, "none" when there is none
HeldState(st) == IF st.conn = 0 THEN "none" ELSE st.sess[st.conn].state

\* an operation's outcome becomes the state; im_last records it
ImapDone(op, args, r) ==
    /\ im_obj' = r.st.obj
    /\ im_conn' = r.st.conn
    /\ im_sess' = r.st.sess
    /\ im_last' = [op |-> op, args |-> args, pre |-> HeldState(IMNow), pre_conn |-> im_conn,
                   out |-> [kind |-> r.kind, exc |-> r.exc, value |-> r.value,
                            reason |-> r.reason],
                   cmds |-> r.cmds]
    /\ UNCHANGED notImap

ImapConstruct ==
    /\ ~im_obj.exists
    /\ \E username \in Credentials \ {Some(<<"u2">>)}, password \in Credentials \ {Some(<<"u2">>)},
          do_login \in BOOLEAN, ans \in LoginAnswers :
          /\ do_login => HasFree(im_sess)
          /\ ~do_login => ans = Answer("OK", <<"LOGIN completed">>)
          /\ ImapDone("init",
                      [username |-> username, password |-> password, do_login |-> do_login,
                       ans |-> ans],
                      IMAP_init(im_sess, username, password, do_login, ans))

ImapLogin ==
    /\ im_obj.exists
    /\ HasFree(im_sess)
    /\ \E username \in Credentials, password \in Credentials, ans \in LoginAnswers :
          ImapDone("login", [username |-> username, password |-> password, ans |-> ans],
                   IMAP_login(IMNow, username, password, ans, <<>>))

ImapLogout ==
    /\ im_obj.exists
    /\ LET lo == IMAP_logout(IMNow, <<>>)
       IN ImapDone("logout", [none |-> TRUE],
                   IMR("return", NoExc, TRUE, NoReason, lo.st, lo.cmds))

ImapGetFolders ==
    /\ im_obj.exists
    /\ ~IMAP_is_authenticated(IMNow) => HasFree(im_sess)
    /\ \E ans \in LoginAnswers, lines \in ListLines :
          /\ IMAP_is_authenticated(IMNow) => ans = Answer("OK", <<"LOGIN completed">>)
          /\ ImapDone("get_folders", [ans |-> ans, lines |-> lines],
                      IMAP_get_folders(IMNow, ans, lines))

\* find_messages with the answers of the mail store
DoFindMessages(mailbox, ans, sel, srch, answers) ==
    ImapDone("find_messages",
             [mailbox |-> mailbox, ans |-> ans, sel |-> sel, srch |-> srch,
              answers |-> answers],
             IMAP_find_messages(IMNow, mailbox, ans, sel, srch, answers))

ImapFindMessages ==
    /\ im_obj.exists
    /\ ~IMAP_is_authenticated(IMNow) => HasFree(im_sess)
    /\ \E mailbox \in Mailboxes, ans \in LoginAnswers, sel \in Answers,
          typ \in {"OK", "NO"}, found \in {<<>>, <<"1">>} :
          \E answers \in [1..Len(SplitHandles(found)) ->
                             {FetchAnswer("OK", <<"Message-ID: <", "a", ">">>, "raw1"),
                              FetchAnswer("NO", <<>>, "")}] :
             /\ IsFetchAnswers(SplitHandles(found), answers)
             /\ IMAP_is_authenticated(IMNow) => ans = Answer("OK", <<"LOGIN completed">>)
             /\ ~Truthy(mailbox) => sel = Answer("OK", <<"completed">>)
             /\ typ = "NO" => found = <<>>
             /\ DoFindMessages(mailbox, ans, sel, Answer(typ, found), answers)

NextImap ==
    ImapConstruct \/ ImapLogin \/ ImapLogout \/ ImapGetFolders \/ ImapFindMessages

SpecImap == InitImap /\ [][NextImap]_vars

(***************************************************************************)
(* find_messages as a function of the answers of the mail store: one call  *)
(* on an object whose session is logged in, and selected or not.           *)
(***************************************************************************)
InitFind ==
    /\ ZohoError_options = NoResponse /\ ErrorsIdle
    /\ im_obj = IMObj(TRUE, Some(<<"u1">>), Some(<<"u1">>))
    /\ im_conn = 1
    /\ \E state \in {"AUTH", "SELECTED"} :
          im_sess = [NoSessions EXCEPT ![1] = Session(state, TRUE)]
    /\ \E mailbox \in Mailboxes, found \in Found :
          \E answers \in [1..Len(SplitHandles(found)) -> FetchAnswers] :
             /\ IsFetchAnswers(SplitHandles(found), answers)
             /\ im_last = [op |-> "pending",
                           args |-> [mailbox |-> mailbox,
                                     ans |-> Answer("OK", <<"LOGIN completed">>),
                                     sel |-> Answer("OK", <<"completed">>),
                                     srch |-> Answer("OK", found), answers |-> answers]]
    /\ ZohoIdle /\ TokenIdle /\ AdminIdle /\ UsersIdle

FindMessages ==
    /\ im_last.op = "pending"
    /\ DoFindMessages(im_last.args.mailbox, im_last.args.ans, im_last.args.sel,
                      im_last.args.srch, im_last.args.answers)

NextFind == FindMessages

SpecFind == InitFind /\ [][NextFind]_vars

(***************************************************************************)
(* Claims about fetch_token.                                               *)
(***************************************************************************)
\* a finished call that asked for exceptions, with a valid scope, that got a response
FTAnswered ==
    /\ ft_pc = "done"
    /\ ft_args.use_exceptions
    /\ Truthy(ResolveScope(ft_args.scope_name))
    /\ ft_args.net.err = "None"

FTResp == ft_args.net.resp

\* The fields of a KEY=VALUE text, stated from the format: a line runs between two
\* consecutive breaks (the start, a newline, the end); a line that does not begin
\* with "#" and reads key = value, the value holding no "=", gives the pair; the
\* last line that gives a key decides its value.
Breaks(c) == {0, Len(c) + 1} \cup {i \in 1..Len(c) : c[i] = NL}
LineAt(c, b) ==
    LET e == CHOOSE x \in Breaks(c) : x > b /\ \A y \in Breaks(c) : y > b => x <= y
    IN SubSeq(c, b + 1, e - 1)
PairLines(c) ==
    {b \in Breaks(c) \ {Len(c) + 1} :
        LET l == LineAt(c, b)
        IN /\ \E i \in 1..Len(l) : l[i] = "="
           /\ (l = <<>> \/ l[1] # "#")}
KeyOf(l) == CHOOSE k \in {SubSeq(l, 1, i) : i \in 0..Len(l)} :
                \E v \in {SubSeq(l, i, Len(l)) : i \in 1..(Len(l) + 1)} :
                    /\ l = k \o <<"=">> \o v
                    /\ \A i \in 1..Len(v) : v[i] # "="
ValueOf(l) == SubSeq(l, Len(KeyOf(l)) + 2, Len(l))
TextFields(c) ==
    LET keys == {KeyOf(LineAt(c, b)) : b \in PairLines(c)}
        at(k) == CHOOSE b \in PairLines(c) :
                     /\ KeyOf(LineAt(c, b)) = k
                     /\ \A b2 \in PairLines(c) : KeyOf(LineAt(c, b2)) = k => b2 <= b
    IN [k \in keys |-> ValueOf(LineAt(c, at(k)))]

BodyFields(body) == IF body.kind = "json" THEN body.fields ELSE TextFields(body.chars)

\* C5: for a 200 response the outcome of fetch_token is decided by the decoded
\* fields alone, whichever tier (JSON, or KEY=VALUE lines with "#" lines ignored)
\* decoded them: with RESULT equal to "TRUE" and an AUTHTOKEN field the AUTHTOKEN
\* value is returned; with RESULT absent or not "TRUE" the call raises ZohoError
\* and the error carries the HTTP response.
C5_OutcomeByFields ==
    (FTAnswered /\ FTResp.status = 200) =>
        LET m == BodyFields(FTResp.body)
        IN /\ (K_RESULT \in DOMAIN m /\ m[K_RESULT] = V_TRUE /\ K_AUTHTOKEN \in DOMAIN m)
                => (ft_out.kind = "return" /\ ft_out.value = Some(m[K_AUTHTOKEN]))
           /\ (K_RESULT \notin DOMAIN m \/ m[K_RESULT] # V_TRUE)
                => /\ ft_out.kind = "raise"
                   /\ ft_out.exc.type = "ZohoError"
                   /\ ZohoError_options = FTResp

\* C5 witness: the KEY=VALUE tier decoded a text body and returned its AUTHTOKEN
C5_Witness ==
    /\ FTAnswered
    /\ FTResp.status = 200
    /\ FTResp.body.kind = "text"
    /\ ft_out.decodes = <<"json", "kv">>
    /\ ft_out.kind = "return"
    /\ ft_out.value.some
    /\ \E i \in 1..Len(FTResp.body.chars) : FTResp.body.chars[i] = NL

\* C6: a 200 response that decodes (by either tier) with RESULT equal to "TRUE"
\* and no AUTHTOKEN field makes fetch_token raise ZohoError; a caller that asked
\* for exceptions is never handed None.
C6_MissingTokenRaises ==
    (FTAnswered /\ FTResp.status = 200) =>
        LET m == BodyFields(FTResp.body)
        IN /\ (K_RESULT \in DOMAIN m /\ m[K_RESULT] = V_TRUE /\ K_AUTHTOKEN \notin DOMAIN m)
                => (ft_out.kind = "raise" /\ ft_out.exc.type = "ZohoError")
           /\ ~(ft_out.kind = "return" /\ ft_out.value = None)

\* C7: for every non-2xx status fetch_token raises ZohoError, and no decoder
\* (JSON or KEY=VALUE) has run on the body.
C7_Non2xxRaisesZohoError ==
    (FTAnswered /\ ~(FTResp.status \in 200..299)) =>
        /\ ft_out.kind = "raise"
        /\ ft_out.exc.type = "ZohoError"
        /\ ft_out.decodes = <<>>

(***************************************************************************)
(* Claims about _call_zoho.                                                *)
(***************************************************************************)
\* a finished call with a valid verb that asked for exceptions and got a response
ZCAnswered ==
    /\ zh_last.op = "call"
    /\ zh_last.use_exceptions
    /\ Upper(zh_last.method) \in {"GET", "POST", "PUT", "DELETE"}
    /\ zh_last.net.err = "None"

ZCResp == zh_last.net.resp
ZCOut == zh_last.out
ZCDataPresent == ZCResp.body.kind = "json" /\ ZCResp.body.data.kind # "absent"

\* C2: a non-2xx response whose JSON envelope has a data field is a soft error:
\* the call logs at warning level, raises nothing and returns the data.
C2_SoftErrorReturnsData ==
    (ZCAnswered /\ ~(ZCResp.status \in 200..299) /\ ZCDataPresent) =>
        /\ ZCOut.kind = "return"
        /\ ZCOut.value = ZCResp.body.data
        /\ \E k \in 1..Len(ZCOut.logged) : ZCOut.logged[k].level = "WARN"

\* C3: a 2xx response whose JSON envelope has a data field, whatever its value
\* and whichever the 2xx status, makes the call return that value and raise nothing.
C3_SuccessReturnsData ==
    (ZCAnswered /\ ZCResp.status \in 200..299 /\ ZCDataPresent) =>
        /\ ZCOut.kind = "return"
        /\ ZCOut.value = ZCResp.body.data

\* C4: when the envelope has no data field, or the body is not JSON, the call
\* raises ZohoError, the error carries the HTTP response, and for a decode
\* failure its cause is the decoding exception.
C4_NoDataRaisesZohoError ==
    (ZCAnswered /\ ~ZCDataPresent) =>
        /\ ZCOut.kind = "raise"
        /\ ZCOut.exc.type = "ZohoError"
        /\ ZohoError_options = ZCResp
        /\ (ZCResp.body.kind = "text" => ZCOut.exc.base_ex = "JSONDecodeError")

(***************************************************************************)
(* Claims about validation in the REST clients.                            *)
(***************************************************************************)
\* a scope name in the named-scope table (names are looked up in lower case)
InScopeTable(s) == Lower(s) \in DOMAIN SCOPES

\* a scope name that reads ProductName/apiname: two words around one "/"
ProductShaped(s) ==
    \E p \in 2..(Len(s) - 1) :
        /\ s[p] = "/"
        /\ \A i \in (1..Len(s)) \ {p} : s[i] \in WordSyms

\* C11: validation fails before any network I/O: _call_zoho with a verb
\* outside GET, POST, PUT, DELETE (after upper-casing), and fetch_token with a
\* scope name neither in the scope table nor shaped ProductName/apiname, each
\* raise ZohoError, and no request has been issued.
C11_ValidationBeforeRequest ==
    /\ (/\ zh_last.op = "call"
        /\ zh_last.use_exceptions
        /\ Upper(zh_last.method) \notin {"GET", "POST", "PUT", "DELETE"}) =>
           /\ zh_last.out.kind = "raise"
           /\ zh_last.out.exc.type = "ZohoError"
           /\ zh_last.out.requests = <<>>
    /\ (/\ ft_pc = "done"
        /\ ft_args.use_exceptions
        /\ Truthy(ft_args.scope_name)
        /\ ~InScopeTable(ft_args.scope_name.s)
        /\ ~ProductShaped(ft_args.scope_name.s)) =>
           /\ ft_out.kind = "raise"
           /\ ft_out.exc.type = "ZohoError"
           /\ ft_out.requests = <<>>

(***************************************************************************)
(* Claims about SMAPI.call.                                                *)
(***************************************************************************)
SMCalled == sm_last.op = "call"

\* C1: for every service name outside the whitelist, call fails with an
\* SMAPIError, and no request has been issued.
C1_InvalidServiceRaisesSMAPIError ==
    (SMCalled /\ sm_last.srv_name \notin SERVICES) =>
        /\ sm_last.out.kind = "raise"
        /\ sm_last.out.exc.type = "SMAPIError"
        /\ sm_last.out.requests = <<>>

\* the request failed at the transport level: a connection error or a non-2xx status
SMTransportFailure ==
    IF sm_last.net.err # "None" THEN TRUE
    ELSE ~(sm_last.net.resp.status \in 200..299)

\* C8: a call of a whitelisted service issues exactly one request; when that
\* request fails at the transport level the call raises SMAPIError with the
\* original exception as its cause, and neither returns a document nor lets
\* another exception escape.
C8_TransportFailureRaisesSMAPIError ==
    (SMCalled /\ sm_last.srv_name \in SERVICES) =>
        /\ Len(sm_last.out.requests) = 1
        /\ SMTransportFailure =>
              /\ sm_last.out.kind = "raise"
              /\ sm_last.out.exc.type = "SMAPIError"
              /\ sm_last.out.exc.base_ex # "None"

(***************************************************************************)
(* Claims about get_users.                                                 *)
(***************************************************************************)
\* a get_users call with requested settings whose listing request was answered
GUBatch ==
    /\ gu_pc # "idle"
    /\ gu_args.requested_settings # {}
    /\ gu_args.net.err = "None"

GUListing == gu_args.net.resp.content.userinfo
GUListed == {GUListing[i] : i \in 1..Len(GUListing)}
GUSeen == {gu_lookups[i].usr : i \in 1..Len(gu_lookups)}
GUFailed == {gu_lookups[i].usr : i \in {j \in 1..Len(gu_lookups) : ~gu_lookups[j].ok}}

\* C9: in a batch lookup without require_extra_info a failed detail lookup, of
\* any error type, is skipped: nothing is raised, every listed user is looked
\* up, and every listed user, the failed ones included, is a key of the mapping
\* returned.  With require_extra_info the first failed lookup ends the batch:
\* get_users raises an SMAPIError and returns no mapping.
C9_FailedLookupSkippedOrRaised ==
    GUBatch =>
        IF gu_args.require_extra_info
        THEN /\ GUFailed # {} =>
                   /\ gu_pc = "done"
                   /\ gu_out.kind = "raise"
                   /\ gu_out.exc.type = "SMAPIError"
                   /\ ~gu_lookups[Len(gu_lookups)].ok
                   /\ \A i \in 1..(Len(gu_lookups) - 1) : gu_lookups[i].ok
             /\ (gu_pc = "done" /\ GUFailed = {}) =>
                   /\ gu_out.kind = "return"
                   /\ GUSeen = GUListed
        ELSE /\ gu_out.kind # "raise"
             /\ gu_pc = "done" =>
                   /\ gu_out.kind = "return"
                   /\ GUSeen = GUListed
                   /\ DOMAIN gu_out.value = GUListed

\* C9 witness: a batch without require_extra_info returned after a failed lookup
\* that was followed by a lookup of another user
C9_Witness ==
    /\ GUBatch
    /\ gu_pc = "done"
    /\ ~gu_args.require_extra_info
    /\ gu_out.kind = "return"
    /\ \E i \in 1..Len(gu_lookups) : \E j \in (i + 1)..Len(gu_lookups) :
          ~gu_lookups[i].ok /\ gu_lookups[j].ok
    /\ GUFailed \subseteq DOMAIN gu_out.value

(***************************************************************************)
(* Claims about IMAP_Connection.                                           *)
(***************************************************************************)
IMCmds == im_last.cmds
IMIssued(cmd) == \E i \in 1..Len(IMCmds) : IMCmds[i].cmd = cmd
IMFound == im_last.op = "find_messages"

\* find_messages ended in the login at its head
FMLoginFailed ==
    /\ im_last.out.kind = "raise"
    /\ im_last.out.exc.message \in
          {"Unable to login to IMAP server",
           "No username provided or stored for this connection",
           "No passworde provided or stored for this connection"}

\* the SELECT was taken by the connection and answered
FMSelectAnswered ==
    \E i \in 1..Len(IMCmds) : IMCmds[i].cmd = "SELECT" /\ IMCmds[i].state \in {"AUTH", "SELECTED"}

\* C12: find_messages without a mailbox goes on to SEARCH only when the session
\* is already in the state SELECTED, and otherwise raises SMAPIError ("No
\* mailbox provided or previously selected") with no SEARCH and no FETCH
\* issued; with a mailbox it issues SELECT for it before anything else, and a
\* SELECT answered other than OK raises SMAPIError ("Unable to select mailbox")
\* with no SEARCH and no FETCH issued.
C12_SearchNeedsSelectedMailbox ==
    IMFound =>
        IF ~Truthy(im_last.args.mailbox)
        THEN /\ ~IMIssued("SELECT")
             /\ IMIssued("SEARCH") => im_last.pre = "SELECTED"
             /\ im_last.pre = "SELECTED" => IMIssued("SEARCH")
             /\ im_last.pre # "SELECTED" =>
                   /\ im_last.out.kind = "raise"
                   /\ im_last.out.exc.type = "SMAPIError"
                   /\ ~IMIssued("SEARCH") /\ ~IMIssued("FETCH")
                   /\ ~FMLoginFailed =>
                         im_last.out.exc.message = "No mailbox provided or previously selected"
        ELSE /\ ~FMLoginFailed =>
                   \E i \in 1..Len(IMCmds) :
                       /\ IMCmds[i].cmd = "SELECT"
                       /\ IMCmds[i].arg = im_last.args.mailbox.s[1]
                       /\ \A j \in 1..(i - 1) : IMCmds[j].cmd \in {"LOGOUT", "LOGIN"}
             /\ (FMSelectAnswered /\ im_last.args.sel.typ # "OK") =>
                   /\ im_last.out.kind = "raise"
                   /\ im_last.out.exc.type = "SMAPIError"
                   /\ im_last.out.exc.message = "Unable to select mailbox"
                   /\ ~IMIssued("SEARCH") /\ ~IMIssued("FETCH")

\* C12 witness: find_messages without a mailbox on a logged-in session with no
\* mailbox selected raised, and issued no command
C12_Witness ==
    /\ IMFound
    /\ ~Truthy(im_last.args.mailbox)
    /\ im_last.pre = "AUTH"
    /\ im_last.out.kind = "raise"
    /\ im_last.out.exc.message = "No mailbox provided or previously selected"
    /\ IMCmds = <<>>

\* C13: a LIST is only ever issued on a session that has completed a
\* successful login, never on one that is merely connected.
C13_ListOnlyAfterLogin ==
    im_last.op # "none" =>
        \A i \in 1..Len(IMCmds) :
            IMCmds[i].cmd = "LIST" =>
                /\ im_sess[IMCmds[i].sess].logged_in
                /\ IMCmds[i].state \in {"AUTH", "SELECTED"}

\* the messages fetched with a Message-ID that can be extracted, by position
FMKept == {i \in 1..Len(im_last.args.answers) :
              /\ im_last.args.answers[i].typ = "OK"
              /\ MsgIdMatches(im_last.args.answers[i].header)}

FMFetched == SelectSeq(IMCmds, LAMBDA c : c.cmd = "FETCH")

\* C19: once SEARCH has succeeded, the FETCHes issued are those of the handles
\* SEARCH returned, in order; a FETCH answered other than OK, or a message
\* whose Message-ID cannot be extracted, is skipped and the call still
\* returns; and the mapping returned has exactly one entry, keyed by
\* message-id and holding the handle and the raw contents, for each message
\* fetched with a Message-ID that can be extracted.
C19_OneEntryPerFetchedMessage ==
    (IMFound /\ IMIssued("SEARCH") /\ im_last.args.srch.typ = "OK") =>
        /\ im_last.out.kind = "return"
        /\ [i \in 1..Len(FMFetched) |-> FMFetched[i].arg] = im_last.args.srch.data
        /\ Cardinality(DOMAIN im_last.out.value) = Cardinality(FMKept)
        /\ \A i \in FMKept :
              LET a == im_last.args.answers[i]
              IN /\ MsgId(a.header) \in DOMAIN im_last.out.value
                 /\ im_last.out.value[MsgId(a.header)] =
                       [id |-> im_last.args.srch.data[i], contents |-> a.contents]

\* the sessions still open at the mail store
OpenSessions == {s \in DOMAIN im_sess : im_sess[s].state \in {"NONAUTH", "AUTH", "SELECTED"}}

\* C20: login on an object that holds a session logs that session out before
\* the new LOGIN is sent, so the object holds at most one open session and no
\* session is left open without being logged out; and a LOGIN answered other
\* than OK raises SMAPIError carrying the server's reason.
C20_LoginLogsOutFirst ==
    /\ OpenSessions \subseteq {im_conn}
    /\ (im_last.op = "login" /\ IMIssued("LOGIN")) =>
          /\ im_last.pre_conn # 0 =>
                \E i \in 1..Len(IMCmds) : \E j \in (i + 1)..Len(IMCmds) :
                    /\ IMCmds[i].cmd = "LOGOUT" /\ IMCmds[i].sess = im_last.pre_conn
                    /\ IMCmds[j].cmd = "LOGIN" /\ IMCmds[j].sess # im_last.pre_conn
          /\ im_last.args.ans.typ # "OK" =>
                /\ im_last.out.kind = "raise"
                /\ im_last.out.exc.type = "SMAPIError"
                /\ im_last.out.reason.parts = im_last.args.ans.data

\* C20 witness: a login on an object already logged in, answered other than OK
C20_Witness ==
    /\ im_last.op = "login"
    /\ im_last.pre \in {"AUTH", "SELECTED"}
    /\ im_last.args.ans.typ # "OK"
    /\ im_last.out.kind = "raise"
    /\ Len(IMCmds) = 2
    /\ im_sess[im_last.pre_conn].state = "LOGOUT"

(***************************************************************************)
(* Claims about the construction of ZohoAPI objects.                       *)
(***************************************************************************)
ZILast == zh_last.op = "init" /\ ~Truthy(zh_last.scope_name)

\* 32 characters of [a-z0-9], and nothing else
Is32LowerAlnum(s) ==
    /\ \A i \in 1..Len(s) : LowerAlnum(s[i])
    /\ TotalWidth(s) = TokenLen

\* C10: construction resolves the token once: a token argument of the token
\* format, with no forced fetch, is stored as given and no request is issued;
\* otherwise construction without an account id fails before any request, and
\* with one it issues one token request and stores what fetch_token returned.
\* Every later call of an object sends the token that object resolved.
C10_ResolvedTokenIsSent ==
    /\ (ZILast /\ Is32LowerAlnum(zh_last.token) /\ ~zh_last.fetch_token) =>
           /\ zh_last.out.kind = "ok"
           /\ zh_last.out.requests = <<>>
           /\ zh_insts[zh_last.inst].token = Some(zh_last.token)
    /\ (ZILast /\ ~(Is32LowerAlnum(zh_last.token) /\ ~zh_last.fetch_token)) =>
           IF Truthy(zh_last.email_id)
           THEN /\ Len(zh_last.out.requests) = 1
                /\ zh_last.out.requests[1].endpoint = "token"
                /\ zh_last.out.kind = "ok" =>
                       zh_insts[zh_last.inst].token =
                           DictGet(BodyFields(zh_last.net.resp.body), K_AUTHTOKEN)
           ELSE zh_last.out.kind = "raise" /\ zh_last.out.requests = <<>>
    /\ (zh_last.op = "call" /\ zh_last.out.requests # <<>>) =>
           zh_last.out.requests[1].auth = zh_insts[zh_last.inst].token

(***************************************************************************)
(* Claims about the construction of the admin client.                      *)
(***************************************************************************)
SMConstructed == sm_last.op = "init" /\ sm_last.out.kind = "ok"

\* the port argument denotes a positive integer
PositivePort(port) == port.kind \in {"int", "str"} /\ port.n > 0

\* C15: construction succeeds only if server, username and password are
\* non-empty and the port, when given, parses as a positive integer; no
\* constructed client holds a non-positive port.
C15_ConstructedPortIsPositive ==
    SMConstructed =>
        /\ Truthy(sm_last.server) /\ Truthy(sm_last.username) /\ Truthy(sm_last.password)
        /\ sm_last.port # PortNone => PositivePort(sm_last.port)
        /\ sm_options.port # PortNone => sm_options.port.n > 0

\* the URL of the template scheme://host[:port]/Services/svc<Service>.asmx/<Method>
TemplateUrl(secure, host, port, service, method) ==
    <<IF secure THEN "https" ELSE "http", "://">> \o host
    \o (IF port # PortNone THEN <<":", ToString(port.n)>> ELSE <<>>)
    \o <<"/Services/svc">> \o service \o <<".asmx/">> \o method

\* C16: the URL that call requests for a whitelisted service is the template
\* URL: https if and only if use_ssl is set, and the port part present if and
\* only if the client was configured with a port.
C16_UrlFollowsTemplate ==
    (SMCalled /\ sm_last.srv_name \in SERVICES) =>
        /\ Len(sm_last.out.requests) = 1
        /\ sm_last.out.requests[1].url =
               TemplateUrl(sm_options.use_ssl, sm_options.server.s, sm_options.port,
                           sm_last.srv_name, sm_last.method)

(***************************************************************************)
(* Claims about the read helpers.                                          *)
(***************************************************************************)
ReadOps == {"get_all_domains", "get_domain_users", "get_requested_user_settings",
            "get_domains", "get_user"}

\* the helper's call returned a parsed document
RDAnswered == sm_last.op \in ReadOps /\ sm_last.net.err = "None"
RDDoc == sm_last.net.resp.content

\* the container node the helper reads is in the document
RDContainer ==
    CASE sm_last.op \in {"get_all_domains", "get_domains"} -> RDDoc.domainnames.some
      [] sm_last.op = "get_domain_users" -> RDDoc.users.some
      [] OTHER -> RDDoc.settingvalues.some

\* C17: when the container node is absent from the parsed document, a read
\* helper fails with an SMAPIError that carries the document as diagnostic
\* payload; it neither returns a result nor raises another exception.
C17_AbsentContainerRaisesShapeError ==
    (RDAnswered /\ ~RDContainer) =>
        /\ sm_last.out.kind = "raise"
        /\ sm_last.out.exc.type = "SMAPIError"
        /\ sm_last.out.dump = RDDoc

(***************************************************************************)
(* Claims about the exception objects.                                     *)
(***************************************************************************)
ErrRead == ex_last.op = "read"

\* what the object read was constructed with, for the field read
ErrGiven ==
    LET obj == ex_objs[ex_last.err]
    IN CASE ex_last.field \in {"message", "str"} -> obj.values.message
         [] ex_last.field = "base_ex" -> obj.values.base_ex
         [] ex_last.field = "dump_objs" -> obj.values.dump_objs
         [] OTHER -> obj.http_response

\* C14: reading the message, the cause, the diagnostic payload or the captured
\* http_response of an error, or printing it, never fails and yields what the
\* error was constructed with, for as long as the error exists.
C14_ErrorFieldsReadable ==
    ErrRead =>
        /\ ex_last.out.kind = "return"
        /\ ex_last.out.value = ErrGiven

(***************************************************************************)
(* Claims about the state shared between objects.                          *)
(***************************************************************************)
\* C18: the token and the account id an existing ZohoAPI object reports, and
\* the http_response an existing ZohoError reports, are those the object was
\* constructed with, whatever other objects were constructed or used since.
C18_NoStateSharedAcrossInstances ==
    /\ \A i \in Insts :
          zh_insts[i].live =>
              /\ ZohoAPI_token(ZohoAPI_options) = zh_insts[i].token
              /\ ZohoAPI_email_id(ZohoAPI_options) = zh_insts[i].email_id
    /\ \A e \in ErrIds :
          (ex_objs[e].live /\ ex_objs[e].cls = "ZohoError") =>
              ZohoError_http_response(ex_objs[e], ZohoError_options).value
                  = ex_objs[e].http_response

(***************************************************************************)
(* The parsing of folder listings: one listing, drawn from the lines a     *)
(* server may send, is read by get_folders on a logged-in object or handed *)
(* to parse_imap_folders.                                                  *)
(***************************************************************************)
MaxLines == 3

FlagParts == {<<"(", "\\HasNoChildren", ")", " ">>, <<"(", ")", " ">>, <<>>,
              <<"(", "\\HasNoChildren", " ">>}
SepParts == {<<DQ, "/", DQ>>, <<DQ, ".", DQ>>, <<>>}
NameParts == {<<" ", DQ, "INBOX", DQ>>, <<" ", DQ, "Sent", DQ>>,
              <<" ", DQ, "INBOX", "/", "Sent", DQ>>, <<" ", DQ, DQ>>, <<" ", "INBOX">>, <<>>,
              <<" ", DQ, "INBOX">>, <<DQ, "INBOX", DQ>>,
              <<" ", DQ, "INBOX", DQ, " ", DQ, "Sent", DQ>>}
Trailers == {<<>>, <<" ", "x">>, <<NL>>}

FolderLines == {f \o s \o n \o t : f \in FlagParts, s \in SepParts, n \in NameParts,
                                   t \in Trailers}

\* the lines that listings of several lines are made of
FewLines == {ListLine(TRUE, "INBOX"), ListLine(FALSE, ""),
             <<"(", "\\HasNoChildren", ")", " ", DQ, ".", DQ, " ", DQ, "Sent", DQ>>,
             <<"(", ")", " ", DQ, "/", DQ, " ", DQ, "INBOX", "/", "Sent", DQ, " ", "x">>}

RECURSIVE Listing(_)
Listing(n) ==
    IF n = 0 THEN {<<>>}
    ELSE Listing(n - 1)
         \cup {Append(l, x) : l \in {y \in Listing(n - 1) : Len(y) = n - 1}, x \in FewLines}

FolderListings == {<<l>> : l \in FolderLines} \cup Listing(MaxLines)

InitFolders ==
    /\ ZohoError_options = NoResponse /\ ErrorsIdle
    /\ im_obj = IMObj(TRUE, Some(<<"u1">>), Some(<<"u1">>))
    /\ im_conn = 1
    /\ im_sess = [NoSessions EXCEPT ![1] = Session("AUTH", TRUE)]
    /\ \E lines \in FolderListings :
          im_last = [op |-> "pending", args |-> [lines |-> lines]]
    /\ ZohoIdle /\ TokenIdle /\ AdminIdle /\ UsersIdle

GetFolders ==
    /\ im_last.op = "pending"
    /\ ImapDone("get_folders", im_last.args,
                IMAP_get_folders(IMNow, Answer("OK", <<"LOGIN completed">>),
                                 im_last.args.lines))

ParseImapFolders ==
    /\ im_last.op = "pending"
    /\ im_last' = [op |-> "parse_imap_folders", args |-> im_last.args,
                   pre |-> HeldState(IMNow), pre_conn |-> im_conn,
                   out |-> [kind |-> "return", exc |-> NoExc,
                            value |-> parse_imap_folders(im_last.args.lines),
                            reason |-> NoReason],
                   cmds |-> <<>>]
    /\ UNCHANGED <<im_obj, im_conn, im_sess, notImap>>

NextFolders == GetFolders \/ ParseImapFolders

SpecFolders == InitFolders /\ [][NextFolders]_vars

(***************************************************************************)
(* Claims about the parsing of folder listings.                            *)
(***************************************************************************)
FLParsed == im_last.op \in {"get_folders", "parse_imap_folders"} /\ "lines" \in DOMAIN im_last.args

Quotes(l) == {i \in 1..Len(l) : l[i] = DQ}
NthQuote(l, n) == CHOOSE i \in Quotes(l) : Cardinality({j \in Quotes(l) : j <= i}) = n
Plain(l, i, j) == \A k \in i..j : l[k] \notin {DQ, "(", ")", NL}

\* the line is  (flags) "sep" "name"  and nothing else: a separator of one
\* character and a name that is not empty, each in quotes
WellFormedLine(l) ==
    /\ Cardinality(Quotes(l)) = 4
    /\ NthQuote(l, 4) = Len(l)
    /\ NthQuote(l, 1) >= 4
    /\ l[1] = "(" /\ l[NthQuote(l, 1) - 2] = ")" /\ l[NthQuote(l, 1) - 1] = " "
    /\ Plain(l, 2, NthQuote(l, 1) - 3)
    /\ NthQuote(l, 2) = NthQuote(l, 1) + 2
    /\ l[NthQuote(l, 1) + 1] \in {"/", "."}
    /\ NthQuote(l, 3) = NthQuote(l, 2) + 2 /\ l[NthQuote(l, 2) + 1] = " "
    /\ NthQuote(l, 4) > NthQuote(l, 3) + 1
    /\ Plain(l, NthQuote(l, 3) + 1, NthQuote(l, 4) - 1)

QuotedName(l) == SubSeq(l, NthQuote(l, 3) + 1, NthQuote(l, 4) - 1)

\* the line has no second quoted text: the quoted name is missing
NameMissing(l) == Cardinality(Quotes(l)) < 4

\* names is what the lines yield: a well-formed line its quoted name, a line
\* with the name missing nothing, any other line at most one name, in order
RECURSIVE NamesOf(_, _)
NamesOf(lines, names) ==
    IF lines = <<>> THEN names = <<>>
    ELSE IF WellFormedLine(Head(lines))
    THEN /\ names # <<>>
         /\ Head(names) = QuotedName(Head(lines))
         /\ NamesOf(Tail(lines), Tail(names))
    ELSE IF NameMissing(Head(lines)) THEN NamesOf(Tail(lines), names)
    ELSE \/ NamesOf(Tail(lines), names)
         \/ names # <<>> /\ NamesOf(Tail(lines), Tail(names))

\* C21: parsing a folder listing never raises; the result is, in the order
\* of the lines, the quoted name of every line of the form
\* (flags) "sep" "name", a line with the quoted name missing contributes
\* nothing, and the result is not longer than the listing.
C21_FolderNamesOfMatchingLines ==
    FLParsed =>
        /\ im_last.out.kind = "return"
        /\ Len(im_last.out.value) <= Len(im_last.args.lines)
        /\ NamesOf(im_last.args.lines, im_last.out.value)

====
